---- MODULE Spec2Model ----
(***************************************************************************)
(* Wochenzettel: timesheet tracker (src/index.tsx).                        *)
(*                                                                         *)
(* Representation                                                          *)
(*   - a string is a sequence of one-character strings; "" is <<>>;        *)
(*   - an HH:MM time string is <<h, m>>, the empty string is <<>>;         *)
(*   - a YYYY-MM-DD date string is <<y, m, d>>, the empty string is <<>>;  *)
(*   - a number of hours h is the integer h * MsPerHour (the millisecond   *)
(*     difference calculateHours divides by 1000*60*60), so sums and       *)
(*     differences of hours are exact;                                     *)
(*   - an optional field is <<>> when undefined and <<v>> when it is v;    *)
(*   - a nullable string is the string Null when null.                     *)
(***************************************************************************)
EXTENDS Integers, Sequences, FiniteSets, TLC

VARIABLES
    entries,          \* App state: Entry[]
    employeeName,     \* App state
    savedLocations,   \* App state
    baseOvertime,     \* App state (hours * MsPerHour)
    error,            \* App state: inline error of the add form
    editingEntry,     \* App state: Entry | null
    EditModal_error,  \* EditModal state: inline error of the edit form
    clock,            \* Date.now(), milliseconds
    now,              \* new Date() as seen by summaryMetrics: <<fullYear, monthIndex>>
    summaryMetrics,   \* value of the summaryMetrics memo
    arg,              \* argument of the pure function under study
    res,              \* its result
    confirmation,     \* App state: the open ConfirmModal | null
    readers,          \* the FileReaders whose readAsText is in flight
    persistDeps,      \* dependency values of the last run of the persistence effect
    saveIndicatorText, \* App state
    isExporting,      \* App state
    shareState,       \* App state: 'idle' | 'preparing' | 'ready' | 'error'
    shareFiles,       \* App state: { pdf, json } | null
    shareError,       \* App state: string | null
    exportsInFlight,  \* calls of handleExportToPDF that await html2canvas
    preparesInFlight, \* calls of handlePrepareShare that await html2canvas
    sharesInFlight,   \* calls of executeShare that await navigator.share
    navigator,        \* what the browser offers: share, canShare
    caches,           \* CacheStorage of the origin: cache name -> cached request URLs
    worker,           \* life cycle state of the service worker (src/sw.js)
    fetching          \* GET requests of the worker that await the network

vars == <<entries, employeeName, savedLocations, baseOvertime, error,
          editingEntry, EditModal_error, clock, now, summaryMetrics, arg, res,
          confirmation, readers, persistDeps, saveIndicatorText,
          isExporting, shareState, shareFiles, shareError,
          exportsInFlight, preparesInFlight, sharesInFlight, navigator,
          caches, worker, fetching>>

docVars == <<entries, employeeName, savedLocations, baseOvertime>>
appVars == <<error, editingEntry, EditModal_error, clock>>
memoVars == <<now, summaryMetrics>>
pureVars == <<arg, res>>
confirmVars == <<confirmation, readers>>
persistVars == <<persistDeps, saveIndicatorText>>
shareVars == <<isExporting, shareState, shareFiles, shareError,
               exportsInFlight, preparesInFlight, sharesInFlight, navigator>>
swVars == <<caches, worker, fetching>>

\* ------------------------------------------------------------------------
\* Bounds
\* ------------------------------------------------------------------------
MaxEntries == 2
MaxClock == 1
MaxMetricEntries == 3

\* ------------------------------------------------------------------------
\* Values
\* ------------------------------------------------------------------------
Null == "null"
None == <<>>
Some(v) == <<v>>
NoArg == <<>>
\* the value of a property that an object read from a file does not have
Undefined == <<"undefined">>
NoResult == <<>>

MsPerMinute == 60 * 1000
MsPerHour == 1000 * 60 * 60

\* ------------------------------------------------------------------------
\* Strings: String.prototype.trim and String.prototype.toLowerCase
\* ------------------------------------------------------------------------
WhiteSpace == {" ", "\t"}

UpperCase == <<"A","B","C","D","E","F","G","H","I","J","K","L","M",
               "N","O","P","Q","R","S","T","U","V","W","X","Y","Z">>
LowerCase == <<"a","b","c","d","e","f","g","h","i","j","k","l","m",
               "n","o","p","q","r","s","t","u","v","w","x","y","z">>

LowerChar(c) ==
    IF \E i \in 1..Len(UpperCase) : UpperCase[i] = c
    THEN LowerCase[CHOOSE i \in 1..Len(UpperCase) : UpperCase[i] = c]
    ELSE c

toLowerCase(s) == [i \in 1..Len(s) |-> LowerChar(s[i])]

RECURSIVE trimStart(_)
trimStart(s) ==
    IF s # <<>> /\ Head(s) \in WhiteSpace THEN trimStart(Tail(s)) ELSE s

RECURSIVE trimEnd(_)
trimEnd(s) ==
    IF s # <<>> /\ s[Len(s)] \in WhiteSpace
    THEN trimEnd(SubSeq(s, 1, Len(s) - 1))
    ELSE s

trim(s) == trimEnd(trimStart(s))

startsWith(s, prefix) ==
    /\ Len(s) >= Len(prefix)
    /\ SubSeq(s, 1, Len(prefix)) = prefix

\* the four reserved keywords, as the string literals of the source
urlaub == <<"u","r","l","a","u","b">>
krank == <<"k","r","a","n","k">>
bereitschaft == <<"b","e","r","e","i","t","s","c","h","a","f","t">>
pause == <<"p","a","u","s","e">>

\* ------------------------------------------------------------------------
\* calculateHours (src/index.tsx:38-46)
\* ------------------------------------------------------------------------
\* new Date(`1970-01-01T${t}:00`).getTime() for a well-formed HH:MM; the
\* local-time offset is the same for both operands and is left out.
DateOfTime(t) == (t[1] * 60 + t[2]) * MsPerMinute

Max(a, b) == IF a >= b THEN a ELSE b

calculateHours_overnight(start, end) ==
    IF start = <<>> \/ end = <<>> THEN 0
    ELSE LET startTime == DateOfTime(start)
             endTime == DateOfTime(end)
             diff == IF endTime <= startTime
                     THEN endTime + 24 * MsPerHour - startTime
                     ELSE endTime - startTime
         IN Max(0, diff)

calculateHours(start, end) ==
    IF start = <<>> \/ end = <<>> THEN 0
    ELSE LET startTime == DateOfTime(start)
             endTime == DateOfTime(end)
         IN IF endTime <= startTime THEN 0
            ELSE LET diff == endTime - startTime
                 IN Max(0, diff)

\* ------------------------------------------------------------------------
\* Deriving an entry's kind from its location, place by place
\* ------------------------------------------------------------------------
\* summaryMetrics, first pass (src/index.tsx:490-496)
PrecedenceKind(location) ==
    LET loc == toLowerCase(trim(location))
    IN IF loc = urlaub THEN "urlaub"
       ELSE IF loc = krank THEN "krank"
       ELSE "other"

\* summaryMetrics, second pass (src/index.tsx:505-516)
HourKind_pauseCounts(location) ==
    LET loc == toLowerCase(trim(location))
    IN IF loc = bereitschaft THEN "bereitschaft" ELSE "regular"

HourKind(location) ==
    LET loc == toLowerCase(trim(location))
    IN IF loc = bereitschaft THEN "bereitschaft"
       ELSE IF loc # pause THEN "regular"
       ELSE "pause"

\* sortedEntries (src/index.tsx:457-458)
isBereitschaft(location) == toLowerCase(trim(location)) = bereitschaft

\* EditModal (src/index.tsx:204-205)
EditModal_isSpecialEntry_untrimmed(location) ==
    LET locationLower == toLowerCase(location)
    IN locationLower = urlaub \/ locationLower = krank \/ locationLower = bereitschaft

EditModal_locationLower(location) == toLowerCase(trim(location))

EditModal_isSpecialEntry(location) ==
    LET locationLower == EditModal_locationLower(location)
    IN locationLower = urlaub \/ locationLower = krank \/ locationLower = bereitschaft

\* App (src/index.tsx:652-653)
App_locationLower(location) == toLowerCase(trim(location))

App_isSpecialEntry(location) ==
    LET locationLower == App_locationLower(location)
    IN locationLower = urlaub \/ locationLower = krank \/ locationLower = bereitschaft

\* handleAddPause, the location part of the find predicate (src/index.tsx:693-694)
isWorkLocation(location) ==
    LET loc == toLowerCase(trim(location))
    IN loc # urlaub /\ loc # krank /\ loc # bereitschaft /\ loc # pause

\* ------------------------------------------------------------------------
\* summaryMetrics (src/index.tsx:481-557)
\* ------------------------------------------------------------------------
EmptyMap == [k \in {} |-> 0]
MapGet(m, k) == IF k \in DOMAIN m THEN m[k] ELSE 0
MapSet(m, k, v) == [x \in (DOMAIN m) \cup {k} |-> IF x = k THEN v ELSE m[x]]

PrecedenceStep_vacationHidesSick(acc, entry) ==
    LET location == PrecedenceKind(entry.location)
    IN IF location = "urlaub"
       THEN [acc EXCEPT !.vacationDays = @ \cup {entry.date}]
       ELSE IF location = "krank" /\ entry.date \notin acc.vacationDays
       THEN [acc EXCEPT !.sickDays = @ \cup {entry.date}]
       ELSE acc

PrecedenceStep(acc, entry) ==
    LET location == PrecedenceKind(entry.location)
    IN IF location = "urlaub"
       THEN [acc EXCEPT !.vacationDays = @ \cup {entry.date}]
       ELSE IF location = "krank"
       THEN [acc EXCEPT !.sickDays = @ \cup {entry.date}]
       ELSE acc

RECURSIVE PrecedencePass(_, _)
PrecedencePass(es, acc) ==
    IF es = <<>> THEN acc
    ELSE PrecedencePass(Tail(es), PrecedenceStep(acc, Head(es)))

RECURSIVE DeploymentsForEach(_, _, _)
DeploymentsForEach(deps, date, byDay) ==
    IF deps = <<>> THEN byDay
    ELSE LET dep == Head(deps)
             depHours == calculateHours(dep.startTime, dep.endTime)
             currentHours == MapGet(byDay, date)
         IN DeploymentsForEach(Tail(deps), date,
                               MapSet(byDay, date, currentHours + depHours))

HourStep_noPrecedence(acc, entry) ==
    LET location == HourKind(entry.location)
    IN IF location = "bereitschaft"
       THEN [acc EXCEPT
               !.onCallDays = @ \cup {entry.date},
               !.deploymentHoursByDay =
                   IF entry.deployments # None
                   THEN DeploymentsForEach(entry.deployments[1], entry.date, @)
                   ELSE @]
       ELSE IF location = "regular"
       THEN LET calculated == calculateHours(entry.startTime, entry.endTime)
            IN IF calculated > 0
               THEN [acc EXCEPT !.workHoursByDay =
                        MapSet(@, entry.date, MapGet(@, entry.date) + calculated)]
               ELSE acc
       ELSE acc

HourStep_chargesEmptySpan(acc, entry) ==
    IF entry.date \in acc.vacationDays \/ entry.date \in acc.sickDays
    THEN acc
    ELSE LET location == HourKind(entry.location)
         IN IF location = "bereitschaft"
            THEN [acc EXCEPT
                    !.onCallDays = @ \cup {entry.date},
                    !.deploymentHoursByDay =
                        IF entry.deployments # None
                        THEN DeploymentsForEach(entry.deployments[1], entry.date, @)
                        ELSE @]
            ELSE IF location = "regular"
            THEN LET calculated == calculateHours(entry.startTime, entry.endTime)
                 IN [acc EXCEPT !.workHoursByDay =
                        MapSet(@, entry.date, MapGet(@, entry.date) + calculated)]
            ELSE acc

HourStep(acc, entry) ==
    IF entry.date \in acc.vacationDays \/ entry.date \in acc.sickDays
    THEN acc
    ELSE LET location == HourKind(entry.location)
         IN IF location = "bereitschaft"
            THEN [acc EXCEPT
                    !.onCallDays = @ \cup {entry.date},
                    !.deploymentHoursByDay =
                        IF entry.deployments # None
                        THEN DeploymentsForEach(entry.deployments[1], entry.date, @)
                        ELSE @]
            ELSE IF location = "regular"
            THEN LET calculated == calculateHours(entry.startTime, entry.endTime)
                 IN IF calculated > 0
                    THEN [acc EXCEPT !.workHoursByDay =
                             MapSet(@, entry.date, MapGet(@, entry.date) + calculated)]
                    ELSE acc
            ELSE acc

RECURSIVE HourPass(_, _)
HourPass(es, acc) ==
    IF es = <<>> THEN acc
    ELSE HourPass(Tail(es), HourStep(acc, Head(es)))

\* `${now.getFullYear()}-${(now.getMonth() + 1).toString().padStart(2, '0')}`
currentMonthStr_zeroBased(nowDate) == <<nowDate[1], nowDate[2]>>

currentMonthStr(nowDate) == <<nowDate[1], nowDate[2] + 1>>

BaselineHours == 8

\* for (const [date, hours] of workHoursByDay.entries())
WorkDayStep_overtimeAsWork(m, date, hours, monthStr) ==
    LET dailyOvertime == hours - BaselineHours * MsPerHour
    IN [m EXCEPT
          !.calculatedOvertime = @ + dailyOvertime,
          !.totalWorkHours = @ + dailyOvertime,
          !.currentMonthOvertime =
              IF startsWith(date, monthStr) THEN @ + dailyOvertime ELSE @]

WorkDayStep(m, date, hours, monthStr) ==
    LET dailyOvertime == hours - BaselineHours * MsPerHour
    IN [m EXCEPT
          !.calculatedOvertime = @ + dailyOvertime,
          !.totalWorkHours = @ + hours,
          !.currentMonthOvertime =
              IF startsWith(date, monthStr) THEN @ + dailyOvertime ELSE @]

RECURSIVE WorkDaysLoop(_, _, _, _)
WorkDaysLoop(byDay, dates, m, monthStr) ==
    IF dates = {} THEN m
    ELSE LET date == CHOOSE d \in dates : TRUE
         IN WorkDaysLoop(byDay, dates \ {date},
                         WorkDayStep(m, date, byDay[date], monthStr), monthStr)

\* for (const [date, hours] of deploymentHoursByDay.entries())
DeploymentDayStep_baseline(m, date, hours, monthStr) ==
    [m EXCEPT
       !.calculatedOvertime = @ + hours - BaselineHours * MsPerHour,
       !.totalWorkHours = @ + hours,
       !.currentMonthOvertime = IF startsWith(date, monthStr) THEN @ + hours ELSE @]

DeploymentDayStep(m, date, hours, monthStr) ==
    [m EXCEPT
       !.calculatedOvertime = @ + hours,
       !.totalWorkHours = @ + hours,
       !.currentMonthOvertime = IF startsWith(date, monthStr) THEN @ + hours ELSE @]

RECURSIVE DeploymentDaysLoop(_, _, _, _)
DeploymentDaysLoop(byDay, dates, m, monthStr) ==
    IF dates = {} THEN m
    ELSE LET date == CHOOSE d \in dates : TRUE
         IN DeploymentDaysLoop(byDay, dates \ {date},
                               DeploymentDayStep(m, date, byDay[date], monthStr),
                               monthStr)

SummaryMetricsOf(es, base, nowDate) ==
    LET first == PrecedencePass(es, [vacationDays |-> {}, sickDays |-> {}])
        second == HourPass(es, [vacationDays |-> first.vacationDays,
                                sickDays |-> first.sickDays,
                                onCallDays |-> {},
                                workHoursByDay |-> EmptyMap,
                                deploymentHoursByDay |-> EmptyMap])
        monthStr == currentMonthStr(nowDate)
        m0 == [calculatedOvertime |-> 0, currentMonthOvertime |-> 0,
               totalWorkHours |-> 0]
        m1 == WorkDaysLoop(second.workHoursByDay,
                           DOMAIN second.workHoursByDay, m0, monthStr)
        m2 == DeploymentDaysLoop(second.deploymentHoursByDay,
                                 DOMAIN second.deploymentHoursByDay, m1, monthStr)
    IN [totalOvertime |-> m2.calculatedOvertime + base,
        currentMonthOvertime |-> m2.currentMonthOvertime,
        totalWorkHours |-> m2.totalWorkHours,
        vacationDays |-> Cardinality(first.vacationDays),
        sickDays |-> Cardinality(first.sickDays),
        onCallDays |-> Cardinality(second.onCallDays)]

\* ------------------------------------------------------------------------
\* sortedEntries (src/index.tsx:455-479)
\* ------------------------------------------------------------------------
\* new Date(date).getTime() of a YYYY-MM-DD date, counted in days instead of
\* milliseconds: only the sign of a difference of two of them is used
DateGetTime(date) == (date[1] * 12 + (date[2] - 1)) * 31 + date[3]

\* String.prototype.localeCompare on two zero-padded HH:MM strings
localeCompare(s, t) ==
    IF s = t THEN 0
    ELSE IF s[1] < t[1] \/ (s[1] = t[1] /\ s[2] < t[2]) THEN -1
    ELSE 1

\* the comparator with the first two tests left out
sortedEntries_compare_byDateOnly(a, b) ==
    IF a.date = <<>> \/ b.date = <<>> THEN 0
    ELSE IF DateGetTime(a.date) # DateGetTime(b.date)
    THEN DateGetTime(a.date) - DateGetTime(b.date)
    ELSE IF a.startTime # <<>> /\ b.startTime # <<>>
    THEN localeCompare(a.startTime, b.startTime)
    ELSE 0

\* the comparator handed to Array.prototype.sort; the difference of two
\* dates of which one is invalid is NaN, which sort takes as 0
sortedEntries_compare(a, b) ==
    LET aIsBereitschaft == isBereitschaft(a.location)
        bIsBereitschaft == isBereitschaft(b.location)
    IN IF aIsBereitschaft /\ ~bIsBereitschaft THEN 1
       ELSE IF ~aIsBereitschaft /\ bIsBereitschaft THEN -1
       ELSE IF a.date = <<>> \/ b.date = <<>> THEN 0
       ELSE IF DateGetTime(a.date) # DateGetTime(b.date)
       THEN DateGetTime(a.date) - DateGetTime(b.date)
       ELSE IF a.startTime # <<>> /\ b.startTime # <<>>
       THEN localeCompare(a.startTime, b.startTime)
       ELSE 0

\* Array.prototype.sort is stable, and with a comparator that is not a
\* consistent order (this one answers 0 for an entry without a startTime
\* against both of two entries it orders) the result depends on the engine.
\* Insertion and merge sorts compare every two neighbours of their result, so
\* the results are the arrangements in which no neighbour is ahead of the one
\* before it, two neighbours that compare as 0 keeping their input order;
\* with a consistent comparator that is the one stable sort of the input.
ArraySort(es) ==
    LET Arrangements ==
            {p \in [DOMAIN es -> DOMAIN es] : \A i \in DOMAIN es : \E j \in DOMAIN es : p[j] = i}
        InOrder(p) ==
            \A i \in 1..(Len(es) - 1) :
                LET c == sortedEntries_compare(es[p[i]], es[p[i + 1]])
                IN c < 0 \/ (c = 0 /\ p[i] < p[i + 1])
    IN {[i \in DOMAIN es |-> es[p[i]]] : p \in {q \in Arrangements : InOrder(q)}}

\* the values the sortedEntries memo can have
sortedEntries(es) == ArraySort(es)

\* ------------------------------------------------------------------------
\* Inputs
\* ------------------------------------------------------------------------
T0200 == <<2, 0>>
T0700 == <<7, 0>>
T0900 == <<9, 0>>
T1530 == <<15, 30>>
T1600 == <<16, 0>>
T1700 == <<17, 0>>
T1900 == <<19, 0>>
T2200 == <<22, 0>>
T2300 == <<23, 0>>
T2345 == <<23, 45>>

Day1 == <<2026, 10, 31>>
Day2 == <<2026, 11, 1>>

\* new Date(): <<getFullYear(), getMonth()>>, the month index counted from 0
NowInputs == {<<2026, 9>>, <<2026, 10>>}

Loc_Buero == <<"B","ü","r","o">>
Loc_Urlaub == <<"U","r","l","a","u","b">>
Loc_krank == <<" ","k","r","a","n","k"," ">>
Loc_Bereitschaft == <<"B","e","r","e","i","t","s","c","h","a","f","t">>
Loc_Pause == <<"P","a","u","s","e">>
Loc_Einsatz == <<"W","e","r","k">>

Entry(id, date, location, startTime, endTime, isChildSick, deployments) ==
    [id |-> id, date |-> date, location |-> location, startTime |-> startTime,
     endTime |-> endTime, isChildSick |-> isChildSick, deployments |-> deployments]

Deployment(id, location, startTime, endTime) ==
    [id |-> id, location |-> location, startTime |-> startTime, endTime |-> endTime]

\* a deployment of one hour and one whose span is empty
DeploymentsInput ==
    <<Deployment(1, Loc_Einsatz, T2200, T2300), Deployment(2, Loc_Einsatz, T0200, T0200)>>

\* Day1: two regular entries (8.5 h and 2 h), vacation, sick, on-call with
\* deployments, pause; Day2: a regular entry, one of a negative span, sick
MetricEntries ==
    { Entry(0, Day1, Loc_Buero, T0700, T1530, None, None),
      Entry(0, Day1, Loc_Buero, T1700, T1900, None, None),
      Entry(0, Day1, Loc_Urlaub, <<>>, <<>>, None, None),
      Entry(0, Day1, Loc_krank, <<>>, <<>>, Some(TRUE), None),
      Entry(0, Day1, Loc_Bereitschaft, <<>>, <<>>, None, Some(DeploymentsInput)),
      Entry(0, Day1, Loc_Pause, T1530, T1600, None, None),
      Entry(0, Day2, Loc_Buero, T0700, T1530, None, None),
      Entry(0, Day2, Loc_Buero, T1700, T0900, None, None),
      Entry(0, Day2, Loc_krank, <<>>, <<>>, Some(FALSE), None) }

BaseOvertimeInputs == {0, 90 * MsPerMinute}

SeqsUpTo(S, n) == UNION {[1..k -> S] : k \in 0..n}
Range(f) == {f[x] : x \in DOMAIN f}

\* ------------------------------------------------------------------------
\* Initial values shared by the specifications
\* ------------------------------------------------------------------------
DocInit ==
    /\ entries = <<>>
    /\ employeeName = <<>>
    /\ savedLocations = <<>>
    /\ baseOvertime = 0

AppInit ==
    /\ error = Null
    /\ editingEntry = None
    /\ EditModal_error = Null
    /\ clock = 0

MemoInit ==
    /\ now = <<2026, 10>>
    /\ summaryMetrics = NoResult

PureInit ==
    /\ arg = NoArg
    /\ res = NoResult

SaveIndicatorIdle == "Alle Änderungen werden automatisch gespeichert."
SaveIndicatorSaved == "Gespeichert!"
SaveIndicatorFailed == "Speicherfehler!"

\* nothing exported or shared; a browser with navigator.share whose canShare
\* accepts files
ShareInit ==
    /\ isExporting = FALSE
    /\ shareState = "idle"
    /\ shareFiles = Null
    /\ shareError = Null
    /\ exportsInFlight = 0
    /\ preparesInFlight = 0
    /\ sharesInFlight = 0
    /\ navigator = [share |-> TRUE, canShare |-> "accepts"]

\* the service worker is active, its cache holding nothing yet
CACHE_NAME == "wochenzettel-cache-v3"

SwInit ==
    /\ caches = [name \in {CACHE_NAME} |-> {}]
    /\ worker = "activated"
    /\ fetching = {}

\* no ConfirmModal, no file being read, the persistence effect up to date
SessionInit ==
    /\ confirmation = None
    /\ readers = {}
    /\ persistDeps = docVars
    /\ saveIndicatorText = SaveIndicatorIdle
    /\ ShareInit
    /\ SwInit

sessionVars == <<confirmVars, persistVars, shareVars, swVars>>

\* ------------------------------------------------------------------------
\* SpecHours: calculateHours applied to every pair of times
\* ------------------------------------------------------------------------
HourInputs == {0, 7, 9, 17, 23}
MinuteInputs == {0, 30, 59}
TimeInputs == {<<>>} \cup {<<h, m>> : h \in HourInputs, m \in MinuteInputs}

HoursInit ==
    /\ DocInit /\ AppInit /\ MemoInit /\ SessionInit
    /\ arg \in TimeInputs \X TimeInputs
    /\ res = NoResult

ApplyCalculateHours ==
    /\ res = NoResult
    /\ res' = Some(calculateHours(arg[1], arg[2]))
    /\ UNCHANGED <<docVars, appVars, memoVars, arg, sessionVars>>

HoursNext == ApplyCalculateHours

SpecHours == HoursInit /\ [][HoursNext]_vars

\* ------------------------------------------------------------------------
\* SpecFormat: formatHours applied to every eighth of an hour, the values
\* whose hundredfold is computed exactly and can lie halfway between two
\* integers
\* ------------------------------------------------------------------------
MaxEighths == 32

MsPerEighth == MsPerHour \div 8

\* Math.round(hours * 100): the integer nearest to the hundredfold, the
\* greater one of two that are equally near; hours is a number of
\* milliseconds and \div rounds down
MsPerHundredth == MsPerHour \div 100

Math_round_hundredfold(hours) ==
    (hours + MsPerHundredth \div 2) \div MsPerHundredth

Math_abs(n) == IF n < 0 THEN -n ELSE n

\* Intl.NumberFormat('de-DE', two fraction digits) of a number of
\* hundredths: the whole part, the comma and the two digits
Intl_format(hundredths) ==
    <<hundredths \div 100, ",", (hundredths % 100) \div 10, hundredths % 10>>

\* formatHours (src/index.tsx:48-59): the sign and the formatted number
formatHours(hours) ==
    LET roundedHours == Math_round_hundredfold(hours)
        formattedNumber == Intl_format(Math_abs(roundedHours))
        sign == IF roundedHours < 0 THEN "-" ELSE "+"
    IN <<sign, formattedNumber>>

FormatInit ==
    /\ DocInit /\ AppInit /\ MemoInit /\ SessionInit
    /\ arg \in {k * MsPerEighth : k \in (-MaxEighths)..MaxEighths}
    /\ res = NoResult

ApplyFormatHours ==
    /\ res = NoResult
    /\ res' = Some(formatHours(arg))
    /\ UNCHANGED <<docVars, appVars, memoVars, arg, sessionVars>>

FormatNext == ApplyFormatHours

SpecFormat == FormatInit /\ [][FormatNext]_vars

\* ------------------------------------------------------------------------
\* SpecMetrics: the summaryMetrics memo computed for every entry collection
\* ------------------------------------------------------------------------
MetricsInit ==
    /\ AppInit /\ PureInit
    /\ entries \in SeqsUpTo(MetricEntries, MaxMetricEntries)
    /\ employeeName = <<>>
    /\ savedLocations = <<>>
    /\ baseOvertime \in BaseOvertimeInputs
    /\ SessionInit
    /\ now \in NowInputs
    /\ summaryMetrics = NoResult

ComputeSummaryMetrics ==
    /\ summaryMetrics = NoResult
    /\ summaryMetrics' = Some(SummaryMetricsOf(entries, baseOvertime, now))
    /\ UNCHANGED <<docVars, appVars, now, pureVars, sessionVars>>

MetricsNext == ComputeSummaryMetrics

SpecMetrics == MetricsInit /\ [][MetricsNext]_vars

\* ------------------------------------------------------------------------
\* SpecClassify: every place that derives a kind, applied to one location
\* ------------------------------------------------------------------------
WordInputs ==
    { <<>>, Loc_Buero, Loc_Urlaub, urlaub, <<"U","R","L","A","U","B">>,
      <<"K","r","a","n","k">>, krank, Loc_Bereitschaft, bereitschaft,
      Loc_Pause, pause,
      <<"K","u","r","z","u","r","l","a","u","b">>,
      <<"U","r"," ","l","a","u","b">>,
      <<"P","a","u","s","e","n">> }

PadInputs == {<<>>, <<" ">>, <<"\t", " ">>}

LocationInputs == {l \o w \o r : l \in PadInputs, w \in WordInputs, r \in PadInputs}

ClassifyInit ==
    /\ DocInit /\ AppInit /\ MemoInit /\ SessionInit
    /\ arg \in LocationInputs
    /\ res = NoResult

ApplyClassifiers ==
    /\ res = NoResult
    /\ res' = Some([precedence |-> PrecedenceKind(arg),
                    hour |-> HourKind(arg),
                    sort |-> isBereitschaft(arg),
                    add |-> App_isSpecialEntry(arg),
                    edit |-> EditModal_isSpecialEntry(arg),
                    pauseAnchor |-> isWorkLocation(arg)])
    /\ UNCHANGED <<docVars, appVars, memoVars, arg, sessionVars>>

ClassifyNext == ApplyClassifiers

SpecClassify == ClassifyInit /\ [][ClassifyNext]_vars

\* ------------------------------------------------------------------------
\* SpecSort: the sortedEntries memo computed for every entry collection
\* ------------------------------------------------------------------------
MaxSortEntries == 3

\* Day1: two regular entries, vacation, on-call; Day2: regular, sick, on-call
SortEntries ==
    { Entry(0, Day1, Loc_Buero, T0700, T1530, None, None),
      Entry(0, Day1, Loc_Buero, T0200, T0700, None, None),
      Entry(0, Day1, Loc_Urlaub, <<>>, <<>>, None, None),
      Entry(0, Day1, Loc_Bereitschaft, <<>>, <<>>, None, None),
      Entry(0, Day2, Loc_Buero, T0700, T1530, None, None),
      Entry(0, Day2, Loc_krank, <<>>, <<>>, Some(FALSE), None),
      Entry(0, Day2, Loc_Bereitschaft, <<>>, <<>>, None, None) }

SortInit ==
    /\ AppInit /\ MemoInit /\ PureInit
    /\ entries \in SeqsUpTo(SortEntries, MaxSortEntries)
    /\ employeeName = <<>>
    /\ savedLocations = <<>>
    /\ baseOvertime = 0
    /\ SessionInit

ComputeSortedEntries ==
    /\ res = NoResult
    /\ \E sorted \in sortedEntries(entries) : res' = Some(sorted)
    /\ UNCHANGED <<docVars, appVars, memoVars, arg, sessionVars>>

SortNext == ComputeSortedEntries

SpecSort == SortInit /\ [][SortNext]_vars

\* ------------------------------------------------------------------------
\* Spec: the App component and its EditModal
\* ------------------------------------------------------------------------
ErrRequired == "Datum und Ort/Auftrag sind Pflichtfelder."
ErrTimes == "Bei regulären Einträgen sind eine gültige Start- und Endzeit erforderlich, die eine positive Arbeitszeit ergeben."

Form(date, location, startTime, endTime, isChildSick, hasDeployments, deployments) ==
    [date |-> date, location |-> location, startTime |-> startTime,
     endTime |-> endTime, isChildSick |-> isChildSick,
     hasDeployments |-> hasDeployments, deployments |-> deployments]

OneDeployment == <<Deployment(1, Loc_Einsatz, T2200, T2300)>>

\* what the controlled inputs of a form hold when it is submitted
FormInputs ==
    { Form(Day1, Loc_Buero, T0700, T1530, FALSE, FALSE, <<>>),
      Form(Day2, Loc_Urlaub, T0700, T1530, FALSE, FALSE, <<>>),
      Form(Day1, Loc_krank, <<>>, <<>>, TRUE, FALSE, <<>>),
      Form(Day1, Loc_Bereitschaft, <<>>, <<>>, FALSE, TRUE, OneDeployment),
      Form(Day1, <<" ">>, T0700, T1530, FALSE, FALSE, <<>>),
      Form(<<>>, Loc_Buero, T0700, T1530, FALSE, FALSE, <<>>),
      Form(<<>>, Loc_Urlaub, <<>>, <<>>, FALSE, FALSE, <<>>),
      Form(Day1, <<>>, T0700, T1530, FALSE, FALSE, <<>>),
      Form(Day1, Loc_Buero, <<>>, T1530, FALSE, FALSE, <<>>),
      Form(Day1, Loc_Buero, T0700, <<>>, FALSE, FALSE, <<>>),
      Form(Day1, Loc_Buero, T1530, T0700, FALSE, FALSE, <<>>),
      Form(Day1, Loc_Buero, T0700, T0700, FALSE, FALSE, <<>>),
      Form(Day1, Loc_Pause, <<>>, <<>>, FALSE, FALSE, <<>>) }

Init == DocInit /\ AppInit /\ MemoInit /\ PureInit /\ SessionInit

\* Date.now() advances between two events
Tick ==
    /\ clock < MaxClock
    /\ clock' = clock + 1
    /\ UNCHANGED <<docVars, error, editingEntry, EditModal_error, memoVars>>

\* handleSubmit (src/index.tsx:655-689), the validation
handleSubmit_error_noSpanCheck(newEntry) ==
    IF newEntry.date = <<>> \/ newEntry.location = <<>> THEN ErrRequired
    ELSE IF /\ ~App_isSpecialEntry(newEntry.location)
            /\ (newEntry.startTime = <<>> \/ newEntry.endTime = <<>>)
    THEN ErrTimes
    ELSE Null

handleSubmit_error(newEntry) ==
    IF newEntry.date = <<>> \/ newEntry.location = <<>> THEN ErrRequired
    ELSE IF /\ ~App_isSpecialEntry(newEntry.location)
            /\ \/ newEntry.startTime = <<>>
               \/ newEntry.endTime = <<>>
               \/ calculateHours(newEntry.startTime, newEntry.endTime) <= 0
    THEN ErrTimes
    ELSE Null

\* handleSubmit, the entry built (src/index.tsx:670-678)
newEntryToAdd(newEntry, id) ==
    LET locationLower == App_locationLower(newEntry.location)
        isSpecialEntry == App_isSpecialEntry(newEntry.location)
    IN Entry(id, newEntry.date, newEntry.location,
             IF isSpecialEntry THEN <<>> ELSE newEntry.startTime,
             IF isSpecialEntry THEN <<>> ELSE newEntry.endTime,
             IF locationLower = krank THEN Some(newEntry.isChildSick) ELSE None,
             IF locationLower = bereitschaft /\ newEntry.hasDeployments
             THEN Some(newEntry.deployments) ELSE None)

handleSubmit(newEntry) ==
    LET failure == handleSubmit_error(newEntry)
    IN /\ error' = failure
       /\ IF failure # Null
          THEN entries' = entries
          ELSE /\ Len(entries) < MaxEntries
               /\ entries' = <<newEntryToAdd(newEntry, clock)>> \o entries
       /\ UNCHANGED <<employeeName, savedLocations, baseOvertime, editingEntry,
                      EditModal_error, clock, memoVars>>

\* the edit button of a row (src/index.tsx:1415): the EditModal mounts
setEditingEntry(i) ==
    /\ editingEntry = None
    /\ editingEntry' = Some(entries[i])
    /\ EditModal_error' = Null
    /\ UNCHANGED <<docVars, error, clock, memoVars>>

\* cancelEditing (src/index.tsx:764-766): the EditModal unmounts
cancelEditing ==
    /\ editingEntry # None
    /\ editingEntry' = None
    /\ EditModal_error' = Null
    /\ UNCHANGED <<docVars, error, clock, memoVars>>

\* EditModal.handleSaveChanges (src/index.tsx:207-233), the validation
handleSaveChanges_error(formData) ==
    IF formData.date = <<>> \/ formData.location = <<>> THEN ErrRequired
    ELSE IF /\ ~EditModal_isSpecialEntry(formData.location)
            /\ \/ formData.startTime = <<>>
               \/ formData.endTime = <<>>
               \/ calculateHours(formData.startTime, formData.endTime) <= 0
    THEN ErrTimes
    ELSE Null

\* EditModal.handleSaveChanges, the entry built (src/index.tsx:222-230)
updatedEntry_keepsDeployments(formData, id) ==
    LET locationLower == EditModal_locationLower(formData.location)
        isSpecialEntry == EditModal_isSpecialEntry(formData.location)
    IN Entry(id, formData.date, formData.location,
             IF isSpecialEntry THEN <<>> ELSE formData.startTime,
             IF isSpecialEntry THEN <<>> ELSE formData.endTime,
             IF locationLower = krank THEN Some(formData.isChildSick) ELSE None,
             IF formData.hasDeployments THEN Some(formData.deployments) ELSE None)

updatedEntry(formData, id) ==
    LET locationLower == EditModal_locationLower(formData.location)
        isSpecialEntry == EditModal_isSpecialEntry(formData.location)
    IN Entry(id, formData.date, formData.location,
             IF isSpecialEntry THEN <<>> ELSE formData.startTime,
             IF isSpecialEntry THEN <<>> ELSE formData.endTime,
             IF locationLower = krank THEN Some(formData.isChildSick) ELSE None,
             IF locationLower = bereitschaft /\ formData.hasDeployments
             THEN Some(formData.deployments) ELSE None)

\* handleUpdateEntry (src/index.tsx:744-747)
handleUpdateEntry(es, updated) ==
    [i \in DOMAIN es |-> IF es[i].id = updated.id THEN updated ELSE es[i]]

\* the form's id is that of the entry the modal was opened for
handleSaveChanges(formData) ==
    /\ editingEntry # None
    /\ LET failure == handleSaveChanges_error(formData)
       IN IF failure # Null
          THEN /\ EditModal_error' = failure
               /\ UNCHANGED <<entries, editingEntry>>
          ELSE /\ entries' = handleUpdateEntry(entries,
                                 updatedEntry(formData, editingEntry[1].id))
               /\ editingEntry' = None
               /\ EditModal_error' = Null
    /\ UNCHANGED <<employeeName, savedLocations, baseOvertime, error, clock,
                   memoVars>>

\* handleAddPause (src/index.tsx:691-718): Date.setMinutes(getMinutes() + 30)
\* and toTimeString().substring(0, 5), which wrap at midnight
AddMinutes_noWrap(t, n) ==
    LET minutes == t[1] * 60 + t[2] + n
    IN <<minutes \div 60, minutes % 60>>

AddMinutes(t, n) ==
    LET minutes == (t[1] * 60 + t[2] + n) % (24 * 60)
    IN <<minutes \div 60, minutes % 60>>

PauseMinutes == 30

\* [...sortedEntries].reverse().find(...): the last work entry of the display
\* order, None when there is none
lastWorkEntry(sorted) ==
    LET found == {i \in DOMAIN sorted :
                     isWorkLocation(sorted[i].location) /\ sorted[i].endTime # <<>>}
    IN IF found = {} THEN None
       ELSE Some(sorted[CHOOSE i \in found : \A j \in found : j <= i])

pauseEntry(last, id) ==
    Entry(id, last.date, Loc_Pause, last.endTime,
          AddMinutes(last.endTime, PauseMinutes), None, None)

\* what handleAddPause leaves in entries when the memo holds sorted
handleAddPause_entries(sorted) ==
    LET last == lastWorkEntry(sorted)
    IN IF last = None THEN entries
       ELSE Append(entries, pauseEntry(last[1], clock))

handleAddPause ==
    /\ \E sorted \in sortedEntries(entries) :
          /\ Len(handleAddPause_entries(sorted)) <= MaxEntries
          /\ entries' = handleAddPause_entries(sorted)
    /\ UNCHANGED <<employeeName, savedLocations, baseOvertime, appVars, memoVars>>

\* handleBaseOvertimeChange (src/index.tsx:593-596): value is what the number
\* input holds, None for '' and Some(n) for the text of the number n
handleBaseOvertimeChange(value) ==
    /\ baseOvertime' = IF value = None THEN 0 ELSE value[1]
    /\ UNCHANGED <<entries, employeeName, savedLocations, appVars, memoVars>>

\* ------------------------------------------------------------------------
\* The ConfirmModal and the four handlers that open it
\* ------------------------------------------------------------------------
\* the object handed to setConfirmation: its title, and the id or the file
\* its onConfirm closure holds (0 when it holds none)
Confirmation(title, id, file) == [title |-> title, id |-> id, file |-> file]

TitleDeleteEntry == "Eintrag löschen"
TitleImport == "Daten überschreiben"
TitleNewDocument == "Neues Dokument erstellen"
TitleDeleteAll == "Einträge löschen"

\* handleDeleteEntry (src/index.tsx:749-762)
handleDeleteEntry(id) ==
    /\ confirmation' = Some(Confirmation(TitleDeleteEntry, id, 0))
    /\ UNCHANGED <<docVars, appVars, memoVars, readers>>

handleDeleteEntry_onConfirm(id) ==
    /\ entries' = SelectSeq(entries, LAMBDA e : e.id # id)
    /\ confirmation' = None
    /\ UNCHANGED <<employeeName, savedLocations, baseOvertime, appVars, memoVars,
                   readers>>

\* handleDeleteAllEntries (src/index.tsx:1013-1029)
handleDeleteAllEntries ==
    /\ confirmation' = Some(Confirmation(TitleDeleteAll, 0, 0))
    /\ UNCHANGED <<docVars, appVars, memoVars, readers>>

handleDeleteAllEntries_onConfirm ==
    /\ entries' = <<>>
    /\ confirmation' = None
    /\ UNCHANGED <<employeeName, savedLocations, baseOvertime, appVars, memoVars,
                   readers>>

\* handleNewDocument (src/index.tsx:985-1011); localStorage.clear() returns
\* or throws, and when it throws the catch block leaves the document alone
handleNewDocument ==
    /\ confirmation' = Some(Confirmation(TitleNewDocument, 0, 0))
    /\ UNCHANGED <<docVars, appVars, memoVars, readers>>

handleNewDocument_onConfirm ==
    /\ \E cleared \in BOOLEAN :
          IF cleared
          THEN /\ entries' = <<>>
               /\ employeeName' = <<>>
               /\ savedLocations' = <<>>
               /\ baseOvertime' = 0
          ELSE UNCHANGED docVars
    /\ confirmation' = None
    /\ UNCHANGED <<appVars, memoVars, readers>>

\* ------------------------------------------------------------------------
\* File import: handleFileSelected (src/index.tsx:923-983)
\* ------------------------------------------------------------------------
\* a JSON value: its type and, for a string, number, array or object, its
\* content; the value of a property an object does not have is JUndefined
JUndefined == [t |-> "undefined", v |-> <<>>]
JNull == [t |-> "null", v |-> <<>>]
JString(s) == [t |-> "string", v |-> s]
JNumber(n) == [t |-> "number", v |-> n]
JArray(a) == [t |-> "array", v |-> a]
JObject(es, name, locations, base) ==
    [t |-> "object",
     v |-> [entries |-> es, employeeName |-> name, savedLocations |-> locations,
            baseOvertime |-> base]]

\* a file: whether readAsText can read it, whether JSON.parse throws on its
\* text, and the value JSON.parse returns when it does not
File(readable, syntaxError, data) ==
    [readable |-> readable, syntaxError |-> syntaxError, data |-> data]

Name_Max == <<"M","a","x">>

ImportedEntries ==
    << Entry(0, Day1, Loc_Buero, T1700, T0900, None, None),
       Entry(0, Day2, Loc_Buero, T0700, T1530, None, None) >>

\* an element of entries that has no location
ImportedWithoutLocation ==
    << Entry(0, Day1, Undefined, <<>>, <<>>, None, None) >>

ImportedOnCall ==
    << Entry(0, Day1, Loc_Bereitschaft, <<>>, <<>>, None, Some(DeploymentsInput)) >>

\* the files of the file chooser; a File object is known by its place here
Files ==
    << File(FALSE, FALSE, JNull),
       File(TRUE, TRUE, JNull),
       File(TRUE, FALSE, JObject(JArray(ImportedEntries), JNumber(1),
                                 JString(Name_Max), JString(Name_Max))),
       File(TRUE, FALSE, JObject(JArray(ImportedOnCall), JString(Name_Max),
                                 JArray(<<Loc_Einsatz>>), JNumber(90 * MsPerMinute))),
       File(TRUE, FALSE, JObject(JUndefined, JString(Name_Max),
                                 JArray(<<Loc_Einsatz>>), JNumber(90 * MsPerMinute))),
       File(TRUE, FALSE, JObject(JString(Name_Max), JUndefined, JUndefined, JUndefined)),
       File(TRUE, FALSE, JNull),
       File(TRUE, FALSE, JNumber(1)),
       File(TRUE, FALSE, JObject(JArray(<<>>), JUndefined, JUndefined, JUndefined)),
       File(TRUE, FALSE, JObject(JArray(ImportedWithoutLocation), JUndefined,
                                 JUndefined, JUndefined)) >>

\* data.entries and its siblings: undefined on a value that is no object
Property(data, name) == IF data.t = "object" THEN data.v[name] ELSE JUndefined

\* data && Array.isArray(data.entries) (src/index.tsx:943)
processFile_accepts_missingEntries(data) ==
    data.t = "object" /\ Property(data, "entries").t \in {"array", "undefined"}

processFile_accepts(data) ==
    data.t # "null" /\ Property(data, "entries").t = "array"

\* the three settings of an accepted document (src/index.tsx:945-947)
processFile_employeeName_keepsOld(data) ==
    IF Property(data, "employeeName").t = "string"
    THEN Property(data, "employeeName").v ELSE employeeName

processFile_employeeName(data) ==
    IF Property(data, "employeeName").t = "string"
    THEN Property(data, "employeeName").v ELSE <<>>

processFile_savedLocations(data) ==
    IF Property(data, "savedLocations").t = "array"
    THEN Property(data, "savedLocations").v ELSE <<>>

processFile_baseOvertime(data) ==
    IF Property(data, "baseOvertime").t = "number"
    THEN Property(data, "baseOvertime").v ELSE 0

\* handleFileSelected: the change event of the file input with file chosen
handleFileSelected(file) ==
    /\ confirmation' = Some(Confirmation(TitleImport, 0, file))
    /\ UNCHANGED <<docVars, appVars, memoVars, readers>>

\* its onConfirm: processFile() up to reader.readAsText(file)
handleFileSelected_onConfirm(file) ==
    /\ readers' = readers \cup {file}
    /\ confirmation' = None
    /\ UNCHANGED <<docVars, appVars, memoVars>>

\* reader.onload, its try block (src/index.tsx:936-955): syntaxError tells
\* whether JSON.parse throws, data is what it returns when it does not
reader_onload_try(syntaxError, data) ==
    IF ~syntaxError /\ processFile_accepts(data)
    THEN /\ entries' = Property(data, "entries").v
         /\ employeeName' = processFile_employeeName(data)
         /\ savedLocations' = processFile_savedLocations(data)
         /\ baseOvertime' = processFile_baseOvertime(data)
    ELSE UNCHANGED docVars

\* reader.onload (src/index.tsx:934-958)
reader_onload(file) ==
    /\ file \in readers
    /\ Files[file].readable
    /\ readers' = readers \ {file}
    /\ reader_onload_try(Files[file].syntaxError, Files[file].data)
    /\ UNCHANGED <<appVars, memoVars, confirmation>>

\* ------------------------------------------------------------------------
\* File export: handleSave (src/index.tsx:815-829)
\* ------------------------------------------------------------------------
\* JSON.stringify of an entry writes the properties that are not undefined;
\* the text is kept as the properties it spells out
EntryProperties(entry) ==
    {"id", "date", "location", "startTime", "endTime"}
        \cup (IF entry.isChildSick # None THEN {"isChildSick"} ELSE {})
        \cup (IF entry.deployments # None THEN {"deployments"} ELSE {})

JSON_stringify_entry_flat(entry) ==
    [name \in EntryProperties(entry) \ {"deployments"} |->
        IF name = "isChildSick" THEN entry.isChildSick[1] ELSE entry[name]]

JSON_stringify_entry(entry) ==
    [name \in EntryProperties(entry) |->
        IF name = "isChildSick" THEN entry.isChildSick[1]
        ELSE IF name = "deployments" THEN entry.deployments[1]
        ELSE entry[name]]

\* JSON.parse of such a text: a property the text lacks reads as undefined
JSON_parse_entry(text) ==
    Entry(text["id"], text["date"], text["location"], text["startTime"],
          text["endTime"],
          IF "isChildSick" \in DOMAIN text THEN Some(text["isChildSick"]) ELSE None,
          IF "deployments" \in DOMAIN text THEN Some(text["deployments"]) ELSE None)

\* dataToSave: the text of the downloaded file
handleSave ==
    [entries |-> [i \in DOMAIN entries |-> JSON_stringify_entry(entries[i])],
     employeeName |-> employeeName,
     savedLocations |-> savedLocations,
     baseOvertime |-> baseOvertime]

\* JSON.parse(event.target.result) of a file that handleSave wrote
JSON_parse(text) ==
    JObject(JArray([i \in DOMAIN text.entries |-> JSON_parse_entry(text.entries[i])]),
            JString(text.employeeName), JArray(text.savedLocations),
            JNumber(text.baseOvertime))

\* reader.onerror (src/index.tsx:960-963)
reader_onerror(file) ==
    /\ file \in readers
    /\ ~Files[file].readable
    /\ readers' = readers \ {file}
    /\ UNCHANGED <<docVars, appVars, memoVars, confirmation>>

\* ConfirmModal: the confirm button runs the onConfirm of the open request
ConfirmModal_onConfirm ==
    /\ confirmation # None
    /\ LET request == confirmation[1]
       IN CASE request.title = TitleDeleteEntry -> handleDeleteEntry_onConfirm(request.id)
            [] request.title = TitleDeleteAll -> handleDeleteAllEntries_onConfirm
            [] request.title = TitleNewDocument -> handleNewDocument_onConfirm
            [] request.title = TitleImport -> handleFileSelected_onConfirm(request.file)

ConfirmModal_onCancel_confirms == ConfirmModal_onConfirm

\* ConfirmModal: the cancel button, the Escape key and a click on the overlay
\* run the onCancel of the open request (src/index.tsx:103-135)
ConfirmModal_onCancel ==
    /\ confirmation # None
    /\ confirmation' = None
    /\ UNCHANGED <<docVars, appVars, memoVars, readers>>

\* ------------------------------------------------------------------------
\* The persistence effect (src/index.tsx:423-441)
\* ------------------------------------------------------------------------
\* what persistDeps holds when a setter was given a fresh array: the effect
\* runs again even when the array's content is that of the last run
FreshArray == <<"fresh">>

\* the effect has to run: a dependency differs from that of its last run
EffectPending == persistDeps # docVars

\* a handler's state updates are rendered: fresh tells that it gave
\* setEntries an array
Render(fresh) ==
    /\ persistDeps' = IF fresh THEN FreshArray ELSE persistDeps
    /\ UNCHANGED saveIndicatorText

\* the effect: written tells whether the four setItem calls returned or one
\* of them threw
persistEffect_failureDropsEntries(written) ==
    /\ EffectPending
    /\ saveIndicatorText' = IF written THEN SaveIndicatorSaved ELSE SaveIndicatorFailed
    /\ entries' = IF written THEN entries ELSE <<>>
    /\ persistDeps' = <<entries', employeeName, savedLocations, baseOvertime>>
    /\ UNCHANGED <<employeeName, savedLocations, baseOvertime, appVars, memoVars,
                   confirmVars>>

persistEffect(written) ==
    /\ EffectPending
    /\ saveIndicatorText' = IF written THEN SaveIndicatorSaved ELSE SaveIndicatorFailed
    /\ persistDeps' = docVars
    /\ UNCHANGED <<docVars, appVars, memoVars, confirmVars>>

\* the timer set by a run that wrote (src/index.tsx:433); the next run of
\* the effect clears it
saveIndicatorTimer ==
    /\ saveIndicatorText = SaveIndicatorSaved
    /\ saveIndicatorText' = SaveIndicatorIdle
    /\ UNCHANGED <<docVars, appVars, memoVars, confirmVars, persistDeps>>

\* ------------------------------------------------------------------------
\* Rendering App: the memos read entry.location of stored entries
\* ------------------------------------------------------------------------
\* entry.location.trim() throws a TypeError when location is undefined
location_trim_throws(entry) == entry.location = Undefined

\* the comparator of sortedEntries is called, with every element, as soon as
\* there are two (src/index.tsx:456-458)
sortedEntries_throws(es) ==
    Len(es) >= 2 /\ \E i \in DOMAIN es : location_trim_throws(es[i])

\* the first forEach of summaryMetrics visits every element
\* (src/index.tsx:489-490)
summaryMetrics_throws(es) ==
    \E i \in DOMAIN es : location_trim_throws(es[i])

\* an exception thrown while App renders is caught by no error boundary: the
\* root is unmounted and with it every control
App_render_throws(es) == sortedEntries_throws(es) \/ summaryMetrics_throws(es)

\* ------------------------------------------------------------------------
\* PDF export and sharing (src/index.tsx:768-813, 831-917, 1086-1129)
\* ------------------------------------------------------------------------
\* A handler can run when its button is rendered and not disabled.  The
\* overlay of an open modal keeps the pointer from the buttons behind it, not
\* the keyboard: no modal takes the focus or makes the page inert.  The
\* settings dropdown that holds the export and share buttons can be opened at
\* any time by its own button and is not followed.
ErrShareUnsupported == "Ihr Browser unterstützt das Teilen dieser Art von Dateien nicht."
ErrShareRejected == "Das Teilen wurde vom System abgelehnt. "
ErrPrepare == "err.message"

PreparedFiles == "Wochenzettel.pdf, Wochenzettel.json"

\* the export button (src/index.tsx:1185) and handleExportToPDF up to its
\* await of html2canvas; the element 'export-content' is always rendered
handleExportToPDF ==
    /\ ~(isExporting \/ Len(entries) = 0)
    /\ isExporting' = TRUE
    /\ exportsInFlight' = exportsInFlight + 1
    /\ UNCHANGED <<shareState, shareFiles, shareError, preparesInFlight,
                   sharesInFlight, navigator>>

\* handleExportToPDF from the await on: the PDF is saved or the catch block
\* alerts, then the finally block
handleExportToPDF_finally ==
    /\ exportsInFlight > 0
    /\ isExporting' = FALSE
    /\ exportsInFlight' = exportsInFlight - 1
    /\ UNCHANGED <<shareState, shareFiles, shareError, preparesInFlight,
                   sharesInFlight, navigator>>

\* the share button (src/index.tsx:1194-1202) and handlePrepareShare up to
\* its first await
handlePrepareShare ==
    /\ navigator.share
    /\ ~(shareState # "idle" \/ isExporting \/ Len(entries) = 0)
    /\ shareState' = "preparing"
    /\ shareError' = Null
    /\ shareFiles' = Null
    /\ preparesInFlight' = preparesInFlight + 1
    /\ UNCHANGED <<isExporting, exportsInFlight, sharesInFlight, navigator>>

\* handlePrepareShare from its awaits on: the files are built, or the catch
\* block
handlePrepareShare_settled(built) ==
    /\ preparesInFlight > 0
    /\ preparesInFlight' = preparesInFlight - 1
    /\ IF built
       THEN /\ shareFiles' = PreparedFiles
            /\ shareState' = "ready"
            /\ UNCHANGED shareError
       ELSE /\ shareError' = ErrPrepare
            /\ shareState' = "error"
            /\ UNCHANGED shareFiles
    /\ UNCHANGED <<isExporting, exportsInFlight, sharesInFlight, navigator>>

\* the three controls that close the share modal (src/index.tsx:1087, 1091,
\* 1120-1124)
closeShareModal ==
    /\ shareState # "idle"
    /\ shareState # "preparing"
    /\ shareState' = "idle"
    /\ UNCHANGED <<isExporting, shareFiles, shareError, exportsInFlight,
                   preparesInFlight, sharesInFlight, navigator>>

\* executeShare up to its await (src/index.tsx:892-905), from the button
\* 'Jetzt Teilen' (1115-1119)
executeShare_canShare ==
    /\ shareFiles # Null
    /\ navigator.canShare = "accepts"

executeShare ==
    /\ shareState = "ready" /\ shareFiles # Null
    /\ IF ~executeShare_canShare
       THEN /\ shareError' = ErrShareUnsupported
            /\ shareState' = "error"
            /\ UNCHANGED sharesInFlight
       ELSE /\ sharesInFlight' = sharesInFlight + 1
            /\ UNCHANGED <<shareState, shareError>>
    /\ UNCHANGED <<isExporting, shareFiles, exportsInFlight, preparesInFlight,
                   navigator>>

\* what the promise of navigator.share settles with
ShareOutcomes == {"fulfilled", "AbortError", "NotAllowedError", "not an Error"}

\* err instanceof Error && err.name !== 'AbortError' (src/index.tsx:907)
executeShare_isFailure_abortIncluded(outcome) ==
    outcome \in {"AbortError", "NotAllowedError"}

executeShare_isFailure(outcome) ==
    outcome \notin {"fulfilled", "not an Error"} /\ outcome # "AbortError"

\* executeShare from its await on (src/index.tsx:904-916)
executeShare_settled(outcome) ==
    /\ sharesInFlight > 0
    /\ sharesInFlight' = sharesInFlight - 1
    /\ IF executeShare_isFailure(outcome)
       THEN /\ shareError' = ErrShareRejected
            /\ shareState' = "error"
            /\ UNCHANGED shareFiles
       ELSE /\ shareState' = "idle"
            /\ shareFiles' = Null
            /\ UNCHANGED shareError
    /\ UNCHANGED <<isExporting, exportsInFlight, preparesInFlight, navigator>>

\* the forms and files handed to the handlers of Spec
AppForms ==
    { Form(Day1, Loc_Buero, T0700, T1530, FALSE, FALSE, <<>>),
      Form(Day1, Loc_Bereitschaft, <<>>, <<>>, FALSE, TRUE, OneDeployment),
      Form(Day1, Loc_Buero, T1530, T0700, FALSE, FALSE, <<>>) }

AppFiles == {1, 3}

\* the effect runs after the render that follows a handler and before the
\* next event is handled
Idle == ~EffectPending

Next ==
    \/ Idle /\ Tick /\ Render(FALSE) /\ UNCHANGED <<pureVars, confirmVars, shareVars, swVars>>
    \/ \E newEntry \in AppForms :
          Idle /\ handleSubmit(newEntry) /\ Render(FALSE)
               /\ UNCHANGED <<pureVars, confirmVars, shareVars, swVars>>
    \/ \E i \in DOMAIN entries :
          Idle /\ setEditingEntry(i) /\ Render(FALSE)
               /\ UNCHANGED <<pureVars, confirmVars, shareVars, swVars>>
    \/ Idle /\ cancelEditing /\ Render(FALSE) /\ UNCHANGED <<pureVars, confirmVars, shareVars, swVars>>
    \/ \E formData \in AppForms :
          Idle /\ handleSaveChanges(formData) /\ Render(editingEntry' = None)
               /\ UNCHANGED <<pureVars, confirmVars, shareVars, swVars>>
    \/ Idle /\ handleAddPause /\ Render(FALSE) /\ UNCHANGED <<pureVars, confirmVars, shareVars, swVars>>
    \/ \E i \in DOMAIN entries :
          Idle /\ handleDeleteEntry(entries[i].id) /\ Render(FALSE)
               /\ UNCHANGED <<pureVars, shareVars, swVars>>
    \/ Idle /\ handleDeleteAllEntries /\ Render(FALSE) /\ UNCHANGED <<pureVars, shareVars, swVars>>
    \/ Idle /\ handleNewDocument /\ Render(FALSE) /\ UNCHANGED <<pureVars, shareVars, swVars>>
    \/ \E file \in AppFiles :
          Idle /\ handleFileSelected(file) /\ Render(FALSE) /\ UNCHANGED <<pureVars, shareVars, swVars>>
    \/ Idle /\ ConfirmModal_onConfirm /\ Render(entries' # entries \/ readers' = readers)
            /\ UNCHANGED <<pureVars, shareVars, swVars>>
    \/ Idle /\ ConfirmModal_onCancel /\ Render(FALSE) /\ UNCHANGED <<pureVars, shareVars, swVars>>
    \/ \E file \in readers :
          Idle /\ reader_onload(file) /\ Render(entries' # entries) /\ UNCHANGED <<pureVars, shareVars, swVars>>
    \/ \E file \in readers :
          Idle /\ reader_onerror(file) /\ Render(FALSE) /\ UNCHANGED <<pureVars, shareVars, swVars>>
    \/ Idle /\ saveIndicatorTimer /\ UNCHANGED <<pureVars, shareVars, swVars>>
    \/ \E written \in BOOLEAN : persistEffect(written) /\ UNCHANGED <<pureVars, shareVars, swVars>>

Spec == Init /\ [][Next]_vars

\* ------------------------------------------------------------------------
\* SpecForms: handleSubmit and handleSaveChanges applied to the form arg,
\* from every small collection add can have stored
\* ------------------------------------------------------------------------
MaxFormEntries == 1

StoredInputs ==
    {newEntryToAdd(f, 0) : f \in {g \in FormInputs : handleSubmit_error(g) = Null}}

\* ids as Date.now() gave them: the head is the newest
WithIds(es) == [i \in DOMAIN es |-> [es[i] EXCEPT !.id = Len(es) - i]]

FormsInit ==
    /\ MemoInit
    /\ entries \in {WithIds(es) : es \in SeqsUpTo(StoredInputs, MaxFormEntries)}
    /\ employeeName = <<>>
    /\ savedLocations = <<>>
    /\ baseOvertime = 0
    /\ SessionInit
    /\ error = Null
    /\ editingEntry \in {None} \cup {Some(entries[i]) : i \in DOMAIN entries}
    /\ EditModal_error = Null
    /\ clock = MaxFormEntries
    /\ arg \in FormInputs
    /\ res = <<>>

FormsSubmit ==
    /\ "handleSubmit" \notin Range(res)
    /\ handleSubmit(arg)
    /\ res' = Append(res, "handleSubmit")
    /\ UNCHANGED <<arg, sessionVars>>

FormsSaveChanges ==
    /\ "handleSaveChanges" \notin Range(res)
    /\ handleSaveChanges(arg)
    /\ res' = Append(res, "handleSaveChanges")
    /\ UNCHANGED <<arg, sessionVars>>

FormsNext == FormsSubmit \/ FormsSaveChanges

SpecForms == FormsInit /\ [][FormsNext]_vars

\* ------------------------------------------------------------------------
\* SpecImport: the FileReader callbacks of one confirmed import, arg being the
\* file, from every small document; res keeps the document it found
\* ------------------------------------------------------------------------
NameInputs == {<<>>, <<"E","v","a">>}
SavedLocationsInputs == {<<>>, <<Loc_Buero>>}

ImportInit ==
    /\ AppInit /\ MemoInit
    /\ entries \in {WithIds(es) : es \in SeqsUpTo(StoredInputs, MaxFormEntries)}
    /\ employeeName \in NameInputs
    /\ savedLocations \in SavedLocationsInputs
    /\ baseOvertime \in BaseOvertimeInputs
    /\ arg \in DOMAIN Files
    /\ res = NoResult
    /\ confirmation = None
    /\ readers = {arg}
    /\ persistDeps = docVars
    /\ saveIndicatorText = SaveIndicatorIdle
    /\ ShareInit
    /\ SwInit

ImportLoad ==
    /\ Idle /\ reader_onload(arg) /\ Render(entries' # entries)
    /\ res' = Some(docVars)
    /\ UNCHANGED <<arg, shareVars, swVars>>

ImportError ==
    /\ Idle /\ reader_onerror(arg) /\ Render(FALSE)
    /\ res' = Some(docVars)
    /\ UNCHANGED <<arg, shareVars, swVars>>

ImportPersist == \E written \in BOOLEAN : persistEffect(written) /\ UNCHANGED <<pureVars, shareVars, swVars>>

ImportNext == ImportLoad \/ ImportError \/ ImportPersist

SpecImport == ImportInit /\ [][ImportNext]_vars

\* ------------------------------------------------------------------------
\* SpecConfirm: the four requests that open the ConfirmModal, its two
\* buttons, the FileReader callbacks and an edit of a setting, from every
\* small document; arg is the event handled last
\* ------------------------------------------------------------------------
ConfirmFiles == {1, 2, 3}

ConfirmInit ==
    /\ AppInit /\ MemoInit
    /\ entries \in {WithIds(es) : es \in SeqsUpTo(StoredInputs, MaxFormEntries)}
    /\ employeeName \in NameInputs
    /\ savedLocations \in SavedLocationsInputs
    /\ baseOvertime \in BaseOvertimeInputs
    /\ arg = "mount"
    /\ res = NoResult
    /\ SessionInit

ConfirmRequest ==
    /\ Idle
    /\ \/ \E i \in DOMAIN entries : handleDeleteEntry(entries[i].id)
       \/ handleDeleteAllEntries
       \/ handleNewDocument
       \/ \E file \in ConfirmFiles : handleFileSelected(file)
    /\ Render(FALSE)
    /\ arg' = "request"
    /\ UNCHANGED <<res, shareVars, swVars>>

ConfirmConfirm ==
    /\ Idle /\ ConfirmModal_onConfirm /\ Render(entries' # entries \/ readers' = readers)
    /\ arg' = "confirm"
    /\ UNCHANGED <<res, shareVars, swVars>>

ConfirmCancel ==
    /\ Idle /\ ConfirmModal_onCancel /\ Render(FALSE)
    /\ arg' = "cancel"
    /\ UNCHANGED <<res, shareVars, swVars>>

ConfirmLoad ==
    /\ \E file \in readers : Idle /\ reader_onload(file) /\ Render(entries' # entries)
    /\ arg' = "load"
    /\ UNCHANGED <<res, shareVars, swVars>>

ConfirmError ==
    /\ \E file \in readers : Idle /\ reader_onerror(file) /\ Render(FALSE)
    /\ arg' = "error"
    /\ UNCHANGED <<res, shareVars, swVars>>

ConfirmEdit ==
    /\ \E value \in {None, Some(90 * MsPerMinute)} :
          Idle /\ handleBaseOvertimeChange(value) /\ Render(FALSE)
    /\ UNCHANGED confirmVars
    /\ arg' = "edit"
    /\ UNCHANGED <<res, shareVars, swVars>>

ConfirmPersist ==
    /\ \E written \in BOOLEAN : persistEffect(written)
    /\ arg' = "effect"
    /\ UNCHANGED <<res, shareVars, swVars>>

ConfirmTimer ==
    /\ Idle /\ saveIndicatorTimer
    /\ arg' = "timer"
    /\ UNCHANGED <<res, shareVars, swVars>>

ConfirmNext ==
    \/ ConfirmRequest \/ ConfirmConfirm \/ ConfirmCancel \/ ConfirmLoad
    \/ ConfirmError \/ ConfirmEdit \/ ConfirmPersist \/ ConfirmTimer

SpecConfirm == ConfirmInit /\ [][ConfirmNext]_vars

\* ------------------------------------------------------------------------
\* SpecPersist: edits and the persistence effect; res keeps the outcomes of
\* the last two runs of the effect
\* ------------------------------------------------------------------------
PersistInit ==
    /\ DocInit /\ AppInit /\ MemoInit
    /\ arg = NoArg
    /\ res = <<>>
    /\ SessionInit

PersistSubmit ==
    /\ \E newEntry \in AppForms : Idle /\ handleSubmit(newEntry) /\ Render(FALSE)
    /\ UNCHANGED <<confirmVars, pureVars, shareVars, swVars>>

PersistBaseOvertimeChange ==
    /\ \E value \in {None, Some(90 * MsPerMinute)} :
          Idle /\ handleBaseOvertimeChange(value) /\ Render(FALSE)
    /\ UNCHANGED <<confirmVars, pureVars, shareVars, swVars>>

PersistEffect ==
    /\ \E written \in BOOLEAN :
          /\ persistEffect(written)
          /\ res' = IF res = <<>> THEN <<written>> ELSE <<res[Len(res)], written>>
    /\ UNCHANGED <<arg, shareVars, swVars>>

PersistTimer == Idle /\ saveIndicatorTimer /\ UNCHANGED <<pureVars, shareVars, swVars>>

PersistNext ==
    PersistSubmit \/ PersistBaseOvertimeChange \/ PersistEffect \/ PersistTimer

SpecPersist == PersistInit /\ [][PersistNext]_vars

\* ------------------------------------------------------------------------
\* SpecShare: PDF export and sharing in every kind of browser, with and
\* without entries; arg is the event handled last
\* ------------------------------------------------------------------------
\* A promise of navigator.share that is still pending when the modal is
\* closed settles later, whatever the state then is; the calls in flight are
\* capped.
MaxShares == 1
MaxPrepares == 2

ShareEntriesInputs == {<<>>, <<Entry(0, Day1, Loc_Buero, T0700, T1530, None, None)>>}

ShareSpecInit ==
    /\ AppInit /\ MemoInit
    /\ entries \in ShareEntriesInputs
    /\ employeeName = <<>>
    /\ savedLocations = <<>>
    /\ baseOvertime = 0
    /\ arg = "mount"
    /\ res = NoResult
    /\ confirmation = None
    /\ readers = {}
    /\ persistDeps = docVars
    /\ saveIndicatorText = SaveIndicatorIdle
    /\ isExporting = FALSE
    /\ shareState = "idle"
    /\ shareFiles = Null
    /\ shareError = Null
    /\ exportsInFlight = 0
    /\ preparesInFlight = 0
    /\ sharesInFlight = 0
    /\ navigator \in [share : BOOLEAN, canShare : {"missing", "rejects", "accepts"}]
    /\ SwInit

shareFrame == <<docVars, appVars, memoVars, confirmVars, persistVars, swVars, res>>

ShareExport ==
    handleExportToPDF /\ arg' = "handleExportToPDF" /\ UNCHANGED shareFrame

ShareExportFinally ==
    handleExportToPDF_finally /\ arg' = "finally" /\ UNCHANGED shareFrame

SharePrepare ==
    /\ preparesInFlight < MaxPrepares
    /\ handlePrepareShare
    /\ arg' = "handlePrepareShare"
    /\ UNCHANGED shareFrame

SharePrepareSettled ==
    /\ \E built \in BOOLEAN : handlePrepareShare_settled(built)
    /\ arg' = "prepared"
    /\ UNCHANGED shareFrame

ShareClose ==
    closeShareModal /\ arg' = "close" /\ UNCHANGED shareFrame

ShareExecute ==
    /\ sharesInFlight < MaxShares
    /\ executeShare
    /\ arg' = "executeShare"
    /\ UNCHANGED shareFrame

ShareSettled ==
    \E outcome \in ShareOutcomes :
        executeShare_settled(outcome) /\ arg' = outcome /\ UNCHANGED shareFrame

ShareNext ==
    \/ ShareExport \/ ShareExportFinally \/ SharePrepare \/ SharePrepareSettled
    \/ ShareClose \/ ShareExecute \/ ShareSettled

SpecShare == ShareSpecInit /\ [][ShareNext]_vars

\* ------------------------------------------------------------------------
\* SpecShape: one add or one update with the forms the controlled inputs can
\* hold, the edit form starting from the entry being edited; arg is the form,
\* res the handler that ran and the entry that was being edited
\* ------------------------------------------------------------------------
\* the state of the EditModal when it mounts (src/index.tsx:147-151); an
\* undefined isChildSick shows as an unchecked box
EditModal_formData(entry) ==
    Form(entry.date, entry.location, entry.startTime, entry.endTime,
         entry.isChildSick # None /\ entry.isChildSick[1],
         entry.deployments # None /\ Len(entry.deployments[1]) > 0,
         IF entry.deployments # None THEN entry.deployments[1] ELSE <<>>)

ShapeLocations == {Loc_Buero, Loc_Urlaub, Loc_krank, Loc_Bereitschaft}

\* handleInputChange: the location, the times and the child-sick box changed
EditedForms(entry) ==
    { [EditModal_formData(entry) EXCEPT !.location = l, !.startTime = t[1],
                                        !.endTime = t[2], !.isChildSick = c] :
          l \in ShapeLocations,
          t \in {<<entry.startTime, entry.endTime>>, <<T0700, T1530>>},
          c \in BOOLEAN }

AddForms ==
    { Form(Day1, l, t[1], t[2], c, h, d) :
          l \in ShapeLocations, t \in {<<<<>>, <<>>>>, <<T0700, T1530>>},
          c \in BOOLEAN, h \in BOOLEAN, d \in {<<>>, OneDeployment} }

ShapeInit ==
    /\ MemoInit
    /\ entries \in {WithIds(es) : es \in SeqsUpTo(StoredInputs, MaxFormEntries)}
    /\ employeeName = <<>>
    /\ savedLocations = <<>>
    /\ baseOvertime = 0
    /\ SessionInit
    /\ error = Null
    /\ editingEntry \in {None} \cup {Some(entries[i]) : i \in DOMAIN entries}
    /\ EditModal_error = Null
    /\ clock = MaxFormEntries
    /\ arg \in IF editingEntry = None THEN AddForms ELSE EditedForms(editingEntry[1])
    /\ res = NoResult

ShapeSubmit ==
    /\ res = NoResult
    /\ editingEntry = None
    /\ handleSubmit(arg)
    /\ res' = <<"handleSubmit", None>>
    /\ UNCHANGED <<arg, sessionVars>>

ShapeSaveChanges ==
    /\ res = NoResult
    /\ handleSaveChanges(arg)
    /\ res' = <<"handleSaveChanges", editingEntry>>
    /\ UNCHANGED <<arg, sessionVars>>

ShapeNext == ShapeSubmit \/ ShapeSaveChanges

SpecShape == ShapeInit /\ [][ShapeNext]_vars

\* ------------------------------------------------------------------------
\* SpecRoundTrip: handleSave, edits, and the import of the saved file; arg is
\* the event handled last, res the text of the saved file, the document it
\* was saved from and the document the import found
\* ------------------------------------------------------------------------
RoundTripInit ==
    /\ AppInit /\ MemoInit
    /\ entries \in {WithIds(es) : es \in SeqsUpTo(StoredInputs, MaxFormEntries)}
    /\ employeeName \in NameInputs
    /\ savedLocations \in SavedLocationsInputs
    /\ baseOvertime \in BaseOvertimeInputs
    /\ arg = "mount"
    /\ res = NoResult
    /\ SessionInit

RoundTripSave ==
    /\ Idle
    /\ res = NoResult
    /\ res' = <<handleSave, docVars, docVars>>
    /\ arg' = "handleSave"
    /\ UNCHANGED <<docVars, appVars, memoVars, sessionVars>>

RoundTripEdit ==
    /\ Idle
    /\ res # NoResult
    /\ arg # "load"
    /\ \/ \E value \in {None, Some(90 * MsPerMinute)} : handleBaseOvertimeChange(value)
       \/ \E newEntry \in AppForms : handleSubmit(newEntry)
       \/ handleDeleteAllEntries_onConfirm
    /\ Render(entries' = <<>>)
    /\ arg' = "edit"
    /\ UNCHANGED <<res, confirmVars, shareVars, swVars>>

\* the saved file was chosen and the overwrite confirmed: reader.onload
RoundTripLoad ==
    /\ Idle
    /\ res # NoResult
    /\ arg # "load"
    /\ reader_onload_try(FALSE, JSON_parse(res[1]))
    /\ Render(TRUE)
    /\ res' = <<res[1], res[2], docVars>>
    /\ arg' = "load"
    /\ UNCHANGED <<appVars, memoVars, confirmVars, shareVars, swVars>>

RoundTripPersist ==
    /\ \E written \in BOOLEAN : persistEffect(written)
    /\ UNCHANGED <<pureVars, shareVars, swVars>>

RoundTripNext ==
    RoundTripSave \/ RoundTripEdit \/ RoundTripLoad \/ RoundTripPersist

SpecRoundTrip == RoundTripInit /\ [][RoundTripNext]_vars

\* ------------------------------------------------------------------------
\* SpecPause: handleAddPause applied to every small collection; res keeps the
\* collection it found
\* ------------------------------------------------------------------------
PauseEntries ==
    { Entry(1, Day1, Loc_Buero, T0700, T1530, None, None),
      Entry(2, Day1, Loc_Buero, T1700, T2345, None, None),
      Entry(3, Day2, Loc_Buero, T0200, T0700, None, None),
      Entry(4, Day2, Loc_Buero, T0900, <<>>, None, None),
      Entry(5, Day2, Loc_Urlaub, <<>>, <<>>, None, None),
      Entry(6, Day2, Loc_Bereitschaft, <<>>, <<>>, None, Some(DeploymentsInput)),
      Entry(7, Day1, Loc_Pause, T1530, T1600, None, None) }

PauseInit ==
    /\ AppInit /\ MemoInit
    /\ entries \in SeqsUpTo(PauseEntries, MaxSortEntries)
    /\ employeeName = <<>>
    /\ savedLocations = <<>>
    /\ baseOvertime = 0
    /\ SessionInit
    /\ arg = NoArg
    /\ res = NoResult

ApplyHandleAddPause ==
    /\ res = NoResult
    /\ \E sorted \in sortedEntries(entries) : entries' = handleAddPause_entries(sorted)
    /\ res' = Some(entries)
    /\ UNCHANGED <<employeeName, savedLocations, baseOvertime, appVars, memoVars,
                   arg, sessionVars>>

PauseNext == ApplyHandleAddPause

SpecPause == PauseInit /\ [][PauseNext]_vars

\* ------------------------------------------------------------------------
\* SpecMount: import and add with the render that follows; res tells whether
\* App is still mounted
\* ------------------------------------------------------------------------
Mounted == "mounted"
Unmounted == "unmounted"

MountFiles == {3, 4, 9, 10}

MountInit ==
    /\ AppInit /\ MemoInit
    /\ entries \in {WithIds(es) : es \in SeqsUpTo(StoredInputs, MaxFormEntries)}
    /\ employeeName = <<>>
    /\ savedLocations = <<>>
    /\ baseOvertime = 0
    /\ arg = NoArg
    /\ res = Mounted
    /\ SessionInit

\* the render after a handler: App stays mounted unless a memo throws
MountRender == res' = IF App_render_throws(entries') THEN Unmounted ELSE Mounted

MountSubmit ==
    /\ res = Mounted
    /\ \E newEntry \in AppForms : Idle /\ handleSubmit(newEntry) /\ Render(FALSE)
    /\ MountRender
    /\ UNCHANGED <<arg, confirmVars, shareVars, swVars>>

MountRequest ==
    /\ res = Mounted
    /\ \E file \in MountFiles : Idle /\ handleFileSelected(file) /\ Render(FALSE)
    /\ MountRender
    /\ UNCHANGED <<arg, shareVars, swVars>>

MountConfirm ==
    /\ res = Mounted
    /\ Idle /\ ConfirmModal_onConfirm /\ Render(entries' # entries \/ readers' = readers)
    /\ MountRender
    /\ UNCHANGED <<arg, shareVars, swVars>>

MountLoad ==
    /\ res = Mounted
    /\ \E file \in readers : Idle /\ reader_onload(file) /\ Render(entries' # entries)
    /\ MountRender
    /\ UNCHANGED <<arg, shareVars, swVars>>

\* effects run after a render that committed
MountPersist ==
    /\ res = Mounted
    /\ \E written \in BOOLEAN : persistEffect(written)
    /\ UNCHANGED <<pureVars, shareVars, swVars>>

MountNext ==
    MountSubmit \/ MountRequest \/ MountConfirm \/ MountLoad \/ MountPersist

SpecMount == MountInit /\ [][MountNext]_vars

\* ------------------------------------------------------------------------
\* SpecMemo: the summaryMetrics memo over renders while the calendar
\* advances; arg is the event handled last, res the dependency values of the
\* memo's last computation
\* ------------------------------------------------------------------------
MemoSpecInit ==
    /\ AppInit
    /\ entries \in SeqsUpTo(MetricEntries, 1)
    /\ employeeName = <<>>
    /\ savedLocations = <<>>
    /\ baseOvertime \in BaseOvertimeInputs
    /\ SessionInit
    /\ now \in NowInputs
    /\ summaryMetrics = Some(SummaryMetricsOf(entries, baseOvertime, now))
    /\ arg = "render"
    /\ res = <<entries, baseOvertime>>

\* useMemo(..., [entries, baseOvertime]) in a render (src/index.tsx:481, 557)
summaryMetrics_useMemo ==
    IF res # <<entries, baseOvertime>>
    THEN /\ summaryMetrics' = Some(SummaryMetricsOf(entries, baseOvertime, now))
         /\ res' = <<entries, baseOvertime>>
    ELSE UNCHANGED <<summaryMetrics, res>>

\* the calendar month changes while the page is open
MemoMonthChange ==
    /\ arg # "handled"
    /\ \E later \in NowInputs :
          /\ later[1] * 12 + later[2] > now[1] * 12 + now[2]
          /\ now' = later
    /\ arg' = "month"
    /\ UNCHANGED <<docVars, appVars, summaryMetrics, res, sessionVars>>

MemoBaseOvertimeChange ==
    /\ arg # "handled"
    /\ \E value \in {None, Some(90 * MsPerMinute)} : handleBaseOvertimeChange(value)
    /\ arg' = "handled"
    /\ UNCHANGED <<res, sessionVars>>

MemoSetEditingEntry ==
    /\ arg # "handled"
    /\ \E i \in DOMAIN entries : setEditingEntry(i)
    /\ arg' = "handled"
    /\ UNCHANGED <<res, sessionVars>>

MemoCancelEditing ==
    /\ arg # "handled"
    /\ cancelEditing
    /\ arg' = "handled"
    /\ UNCHANGED <<res, sessionVars>>

\* the render that follows a handler's state updates
MemoRender ==
    /\ arg = "handled"
    /\ summaryMetrics_useMemo
    /\ arg' = "render"
    /\ UNCHANGED <<docVars, appVars, now, sessionVars>>

MemoNext ==
    \/ MemoMonthChange \/ MemoBaseOvertimeChange \/ MemoSetEditingEntry
    \/ MemoCancelEditing \/ MemoRender

SpecMemo == MemoSpecInit /\ [][MemoNext]_vars

\* ------------------------------------------------------------------------
\* Vocabulary of the properties
\* ------------------------------------------------------------------------
\* location is kw surrounded by white space only, letter case aside
MatchesKeyword(location, kw) ==
    \E i \in 0..Len(location) :
        /\ i + Len(kw) <= Len(location)
        /\ \A k \in 1..i : location[k] \in WhiteSpace
        /\ \A k \in 1..Len(kw) : LowerChar(location[i + k]) = kw[k]
        /\ \A k \in (i + Len(kw) + 1)..Len(location) : location[k] \in WhiteSpace

KindOf(location) ==
    IF MatchesKeyword(location, urlaub) THEN "Vacation"
    ELSE IF MatchesKeyword(location, krank) THEN "Sick"
    ELSE IF MatchesKeyword(location, bereitschaft) THEN "OnCall"
    ELSE IF MatchesKeyword(location, pause) THEN "Pause"
    ELSE "Regular"

RECURSIVE SumOver(_, _)
\* the sum of f over its indices in S
SumOver(S, f) ==
    IF S = {} THEN 0
    ELSE LET x == CHOOSE y \in S : TRUE IN f[x] + SumOver(S \ {x}, f)

DatesOf(es) == {es[i].date : i \in DOMAIN es}

KindDates(es, kind) ==
    {d \in DatesOf(es) : \E i \in DOMAIN es : es[i].date = d /\ KindOf(es[i].location) = kind}

ExcludedDates(es) == KindDates(es, "Vacation") \cup KindDates(es, "Sick")

\* R_d: the elapsed hours of all Regular entries dated d
RegularHoursOn(es, d) ==
    LET I == {i \in DOMAIN es : es[i].date = d /\ KindOf(es[i].location) = "Regular"}
    IN SumOver(I, [i \in I |-> calculateHours(es[i].startTime, es[i].endTime)])

DeploymentHoursOf(entry) ==
    IF entry.deployments = None THEN 0
    ELSE LET deps == entry.deployments[1]
         IN SumOver(DOMAIN deps,
                    [j \in DOMAIN deps |-> calculateHours(deps[j].startTime, deps[j].endTime)])

\* the deployment hours of all OnCall entries dated d
DeploymentHoursOn(es, d) ==
    LET I == {i \in DOMAIN es : es[i].date = d /\ KindOf(es[i].location) = "OnCall"}
    IN SumOver(I, [i \in I |-> DeploymentHoursOf(es[i])])

CountedDates(es) == DatesOf(es) \ ExcludedDates(es)

RegularOvertimeOver(es, D) ==
    LET W == {d \in D : RegularHoursOn(es, d) > 0}
    IN SumOver(W, [d \in W |-> RegularHoursOn(es, d) - 8 * MsPerHour])

DeploymentHoursOver(es, D) == SumOver(D, [d \in D |-> DeploymentHoursOn(es, d)])

InCurrentMonth(d, nowDate) == d[1] = nowDate[1] /\ d[2] = nowDate[2] + 1

WithoutDate(es, d) == SelectSeq(es, LAMBDA e : e.date # d)
WithoutPauses(es) == SelectSeq(es, LAMBDA e : KindOf(e.location) # "Pause")

Computed == summaryMetrics # NoResult
Metrics == summaryMetrics[1]

HourFields(m) == <<m.totalWorkHours, m.totalOvertime, m.currentMonthOvertime>>

\* ------------------------------------------------------------------------
\* Properties of summaryMetrics (SpecMetrics)
\* ------------------------------------------------------------------------
\* C1: a date carrying a Vacation or Sick entry contributes 0 to
\* totalWorkHours, totalOvertime and currentMonthOvertime: the three totals
\* are those of the collection with every entry of that date taken out.
C1_ExcludedDateContributesNothing ==
    Computed =>
        \A d \in ExcludedDates(entries) :
            HourFields(Metrics) =
                HourFields(SummaryMetricsOf(WithoutDate(entries, d), baseOvertime, now))

C1_Witness ==
    /\ Computed
    /\ \E d \in ExcludedDates(entries) :
          /\ RegularHoursOn(entries, d) > 0
          /\ DeploymentHoursOn(entries, d) > 0

\* C2: totalOvertime is the sum over counted dates with regular hours of
\* (R_d - 8 h), plus all deployment hours of counted dates, plus baseOvertime.
C2_TotalOvertimeExact ==
    Computed =>
        Metrics.totalOvertime =
            RegularOvertimeOver(entries, CountedDates(entries))
            + DeploymentHoursOver(entries, CountedDates(entries))
            + baseOvertime

C2_Witness ==
    /\ Computed
    /\ baseOvertime # 0
    /\ \E d \in CountedDates(entries) :
          /\ Cardinality({i \in DOMAIN entries :
                 /\ entries[i].date = d
                 /\ KindOf(entries[i].location) = "Regular"
                 /\ calculateHours(entries[i].startTime, entries[i].endTime) > 0}) = 2
          /\ DeploymentHoursOn(entries, d) > 0

\* C3: currentMonthOvertime is the same sum restricted to the dates of the
\* current month, and baseOvertime is not part of it.
C3_CurrentMonthOvertimeExact ==
    Computed =>
        LET D == {d \in CountedDates(entries) : InCurrentMonth(d, now)}
        IN /\ Metrics.currentMonthOvertime =
                 RegularOvertimeOver(entries, D) + DeploymentHoursOver(entries, D)
           /\ Metrics.totalOvertime - baseOvertime =
                 RegularOvertimeOver(entries, CountedDates(entries))
                 + DeploymentHoursOver(entries, CountedDates(entries))

C3_Witness ==
    /\ Computed
    /\ baseOvertime # 0
    /\ \E d1, d2 \in CountedDates(entries) :
          /\ InCurrentMonth(d1, now) /\ ~InCurrentMonth(d2, now)
          /\ RegularHoursOn(entries, d1) > 0
          /\ RegularHoursOn(entries, d2) > 0
          /\ Metrics.currentMonthOvertime # Metrics.totalOvertime - baseOvertime

\* C4: totalWorkHours is the sum of the regular hours and the deployment
\* hours of the counted dates; hours on excluded dates and baseOvertime are
\* not in it.
C4_TotalWorkHoursExact ==
    Computed =>
        LET D == CountedDates(entries)
        IN Metrics.totalWorkHours =
               SumOver(D, [d \in D |-> RegularHoursOn(entries, d)])
               + DeploymentHoursOver(entries, D)

C4_Witness ==
    /\ Computed
    /\ baseOvertime # 0
    /\ Metrics.totalWorkHours > 0
    /\ \E d \in ExcludedDates(entries) : RegularHoursOn(entries, d) > 0

\* C5: onCallDays is the number of distinct dates with an OnCall entry,
\* whatever else is dated the same day.
C5_OnCallDaysCountsEveryOnCallDate ==
    Computed => Metrics.onCallDays = Cardinality(KindDates(entries, "OnCall"))

\* C6: vacationDays and sickDays are the numbers of distinct dates with a
\* Vacation entry and with a Sick entry, each counted on its own.
C6_VacationAndSickDaysIndependent ==
    Computed =>
        /\ Metrics.vacationDays = Cardinality(KindDates(entries, "Vacation"))
        /\ Metrics.sickDays = Cardinality(KindDates(entries, "Sick"))

C6_Witness ==
    /\ Computed
    /\ KindDates(entries, "Vacation") \cap KindDates(entries, "Sick") # {}
    /\ Metrics.vacationDays = 1
    /\ Metrics.sickDays = 2
    /\ Metrics.onCallDays = 0

\* C7: the six fields are those of the collection without its Pause entries.
C7_PauseNeverCounts ==
    Computed =>
        Metrics = SummaryMetricsOf(WithoutPauses(entries), baseOvertime, now)

C7_Witness ==
    /\ Computed
    /\ \E i \in DOMAIN entries :
          /\ KindOf(entries[i].location) = "Pause"
          /\ entries[i].date \in CountedDates(entries)
          /\ calculateHours(entries[i].startTime, entries[i].endTime) > 0
          /\ RegularHoursOn(entries, entries[i].date) > 0

\* ------------------------------------------------------------------------
\* Properties of calculateHours (SpecHours)
\* ------------------------------------------------------------------------
MinuteOfDay(t) == t[1] * 60 + t[2]

\* C8: for start < end the result is end - start in hours; it is 0 when
\* end <= start or an argument is empty; it is never negative.
C8_ElapsedHoursExact ==
    res # NoResult =>
        LET start == arg[1]
            end == arg[2]
            hours == res[1]
        IN /\ hours >= 0
           /\ (start = <<>> \/ end = <<>>) => hours = 0
           /\ (start # <<>> /\ end # <<>> /\ MinuteOfDay(end) <= MinuteOfDay(start))
                 => hours = 0
           /\ (start # <<>> /\ end # <<>> /\ MinuteOfDay(start) < MinuteOfDay(end))
                 => hours = (MinuteOfDay(end) - MinuteOfDay(start)) * MsPerMinute

C8_Witness ==
    /\ arg = <<<<23, 30>>, <<0, 30>>>>
    /\ res = Some(0)

\* ------------------------------------------------------------------------
\* Properties of the kind derivation (SpecClassify)
\* ------------------------------------------------------------------------
TimeFreeKinds == {"Vacation", "Sick", "OnCall"}

\* C9: aggregation, display sort, add validation, edit validation and pause
\* anchoring all derive the kind of a location as KindOf does: trimmed,
\* lower-cased, equal to a keyword, and Regular otherwise.
C9_KindDerivedAlike ==
    res # NoResult =>
        LET kind == KindOf(arg)
            site == res[1]
        IN /\ site.precedence =
                 (IF kind = "Vacation" THEN "urlaub"
                  ELSE IF kind = "Sick" THEN "krank" ELSE "other")
           /\ site.precedence = "other" =>
                 site.hour =
                     (IF kind = "OnCall" THEN "bereitschaft"
                      ELSE IF kind = "Pause" THEN "pause" ELSE "regular")
           /\ site.sort <=> kind = "OnCall"
           /\ site.add <=> kind \in TimeFreeKinds
           /\ site.edit <=> kind \in TimeFreeKinds
           /\ site.pauseAnchor <=> kind = "Regular"

C9_Witness ==
    /\ res # NoResult
    /\ arg = <<" ">> \o <<"K","u","r","z","u","r","l","a","u","b">> \o <<"\t", " ">>
    /\ res[1].precedence = "other"
    /\ res[1].hour = "regular"
    /\ res[1].pauseAnchor

\* ------------------------------------------------------------------------
\* Properties of add and update (Spec)
\* ------------------------------------------------------------------------
\* date or location is the empty string, or the kind needs time bounds and
\* start or end is missing or the span is not positive
InvalidForm(f) ==
    \/ f.date = <<>>
    \/ f.location = <<>>
    \/ /\ KindOf(f.location) \notin TimeFreeKinds
       /\ \/ f.startTime = <<>>
          \/ f.endTime = <<>>
          \/ MinuteOfDay(f.endTime) <= MinuteOfDay(f.startTime)

Sorted == res # NoResult
Displayed == res[1]

SamePartition(a, b) == (KindOf(a.location) = "OnCall") <=> (KindOf(b.location) = "OnCall")

\* C13: in the display order every OnCall entry comes after every entry that
\* is not OnCall, whatever their dates.
C13_OnCallAfterAllOthers ==
    Sorted =>
        \A i, j \in DOMAIN Displayed :
            /\ KindOf(Displayed[i].location) = "OnCall"
            /\ KindOf(Displayed[j].location) # "OnCall"
            => j < i

\* an OnCall entry of Day1 stored ahead of a Regular entry of Day2
C13_Witness ==
    /\ Sorted
    /\ Len(entries) >= 2
    /\ KindOf(entries[1].location) = "OnCall" /\ entries[1].date = Day1
    /\ KindOf(entries[2].location) = "Regular" /\ entries[2].date = Day2
    /\ KindOf(Displayed[Len(Displayed)].location) = "OnCall"

\* C14: within each of the two partitions the display order is ascending by
\* date, and two entries of one date that both have a startTime are in
\* ascending startTime order, for every order of the stored collection.
C14_AscendingWithinPartition ==
    Sorted =>
        \A i, j \in DOMAIN Displayed :
            i < j /\ SamePartition(Displayed[i], Displayed[j]) =>
                /\ DateGetTime(Displayed[i].date) <= DateGetTime(Displayed[j].date)
                /\ /\ Displayed[i].date = Displayed[j].date
                   /\ Displayed[i].startTime # <<>>
                   /\ Displayed[j].startTime # <<>>
                   => localeCompare(Displayed[i].startTime, Displayed[j].startTime) <= 0

\* ------------------------------------------------------------------------
\* The stored collection
\* ------------------------------------------------------------------------
PositiveSpan(startTime, endTime) ==
    /\ startTime # <<>>
    /\ endTime # <<>>
    /\ MinuteOfDay(endTime) > MinuteOfDay(startTime)

StoredDeployments(entry) ==
    IF entry.deployments = None THEN <<>> ELSE entry.deployments[1]

\* C11: in every reachable state every stored Regular entry and every stored
\* deployment of an OnCall entry has endTime > startTime.
C11_NoNonPositiveSpanStored ==
    \A i \in DOMAIN entries :
        /\ KindOf(entries[i].location) = "Regular"
           => PositiveSpan(entries[i].startTime, entries[i].endTime)
        /\ KindOf(entries[i].location) = "OnCall"
           => \A k \in DOMAIN StoredDeployments(entries[i]) :
                  PositiveSpan(StoredDeployments(entries[i])[k].startTime,
                               StoredDeployments(entries[i])[k].endTime)

\* C12: in every reachable state no two entries of the collection have the
\* same id.
C12_IdsUnique ==
    \A i, j \in DOMAIN entries : i # j => entries[i].id # entries[j].id

\* ------------------------------------------------------------------------
\* Import
\* ------------------------------------------------------------------------
\* the file cannot be read, is not JSON, or is JSON without an entries array
ImportFails(file) ==
    \/ ~Files[file].readable
    \/ Files[file].syntaxError
    \/ Files[file].data.t # "object"
    \/ Files[file].data.v.entries.t # "array"

\* the read of a file ends in this step
ReadEnds(file) == file \in readers /\ file \notin readers'

\* the value of a property of the file's document if it has the type, else
\* the default
ImportedOr(file, name, type, default) ==
    IF Files[file].data.v[name].t = type THEN Files[file].data.v[name].v ELSE default

\* C15: when the selected file cannot be read, is not parseable as JSON or
\* parses to a value without an entries array, the four document fields keep
\* the values they had before the import.
C15_FailedImportChangesNothing ==
    [][\A file \in DOMAIN Files :
          ReadEnds(file) /\ ImportFails(file) => UNCHANGED docVars]_vars

\* a failed import has ended on a document that had entries and settings
C15_Witness ==
    /\ readers = {}
    /\ ImportFails(arg)
    /\ Files[arg].readable /\ ~Files[arg].syntaxError /\ Files[arg].data.t = "object"
    /\ res # NoResult
    /\ entries # <<>>
    /\ employeeName # <<>>
    /\ savedLocations # <<>>
    /\ baseOvertime # 0

\* C16: when import accepts a document, entries becomes the document's array
\* as given, employeeName its value if a string and "" otherwise,
\* savedLocations its value if an array and [] otherwise, baseOvertime its
\* value if a number and 0 otherwise, whatever the state before.
C16_AcceptedImportReplacesDocument ==
    [][\A file \in DOMAIN Files :
          ReadEnds(file) /\ ~ImportFails(file) =>
              /\ entries' = Files[file].data.v.entries.v
              /\ employeeName' = ImportedOr(file, "employeeName", "string", <<>>)
              /\ savedLocations' = ImportedOr(file, "savedLocations", "array", <<>>)
              /\ baseOvertime' = ImportedOr(file, "baseOvertime", "number", 0)]_vars

\* an accepted document without usable settings has replaced a document
\* that had entries and settings
C16_Witness ==
    /\ readers = {}
    /\ ~ImportFails(arg)
    /\ Files[arg].data.v.employeeName.t = "number"
    /\ res # NoResult
    /\ res[1][1] # <<>> /\ res[1][2] # <<>> /\ res[1][3] # <<>> /\ res[1][4] # 0
    /\ entries = ImportedEntries
    /\ employeeName = <<>> /\ savedLocations = <<>> /\ baseOvertime = 0

\* ------------------------------------------------------------------------
\* Confirmation of destructive actions
\* ------------------------------------------------------------------------
\* the step changes the entries, the name or the saved locations, which no
\* handler of SpecConfirm but the destructive ones touches
DocumentDestroyed ==
    \/ entries' # entries
    \/ employeeName' # employeeName
    \/ savedLocations' # savedLocations

\* the open request is the import of file
ImportRequested(file) ==
    /\ confirmation # None
    /\ confirmation[1].title = TitleImport
    /\ confirmation[1].file = file

\* C17: a destructive action takes effect only through the confirm step: the
\* request and the cancel leave entries, employeeName, savedLocations and
\* baseOvertime as they are, cancel starts nothing that could take effect
\* later, and the document loses content only in the confirm step of an open
\* request or when the file of a confirmed import has been read.
C17_DestructionOnlyThroughConfirm ==
    [][/\ arg' = "request" => UNCHANGED docVars
       /\ arg' = "cancel" => UNCHANGED <<docVars, readers>> /\ confirmation' = None
       /\ DocumentDestroyed =>
              \/ arg' = "confirm" /\ confirmation # None /\ confirmation' = None
              \/ arg' = "load" /\ \E file \in readers : ReadEnds(file)
       /\ \A file \in DOMAIN Files :
              file \in readers' /\ file \notin readers =>
                  arg' = "confirm" /\ ImportRequested(file)]_vars

\* a request has been cancelled on a document that has entries and settings,
\* and no file is being read
C17_Witness ==
    /\ arg = "cancel"
    /\ confirmation = None
    /\ readers = {}
    /\ entries # <<>>
    /\ employeeName # <<>>
    /\ savedLocations # <<>>

\* ------------------------------------------------------------------------
\* Persistence
\* ------------------------------------------------------------------------
\* the persistence effect runs in this step and its write throws
WriteFails ==
    /\ EffectPending
    /\ ~EffectPending'
    /\ res' # <<>>
    /\ ~res'[Len(res')]

\* C20: a persistence write that throws leaves entries, employeeName,
\* savedLocations and baseOvertime in memory as they are and makes the status
\* indicator show the failure; every later edit that changes the document is
\* accepted as before and makes the effect run again.
C20_FailedWriteIsNotFatal ==
    [][/\ WriteFails => UNCHANGED docVars /\ saveIndicatorText' = SaveIndicatorFailed
       /\ ~EffectPending /\ docVars' # docVars => EffectPending'
       /\ EffectPending => persistDeps' = docVars']_vars

\* a write has failed, a later edit was accepted, and the write that followed
\* it has returned
C20_Witness ==
    /\ res = <<FALSE, TRUE>>
    /\ saveIndicatorText = SaveIndicatorSaved
    /\ entries # <<>>
    /\ ~EffectPending

\* ------------------------------------------------------------------------
\* Export and sharing
\* ------------------------------------------------------------------------
\* C18: no two report rasterizations are in flight at the same time.
C18_OneRasterizationAtATime ==
    exportsInFlight + preparesInFlight <= 1

\* C19: executeShare calls navigator.share only when canShare has accepted
\* the two files, and otherwise sets shareState to 'error' without calling
\* it; a share the user cancels (AbortError) ends with shareState 'idle' and
\* shareFiles null; entries and settings stay as they are throughout.
C19_ShareOnlyWhenAcceptedAndAbortIsNoError ==
    [][/\ sharesInFlight' > sharesInFlight =>
              navigator.canShare = "accepts" /\ shareFiles # Null
       /\ arg' = "executeShare" /\ navigator.canShare # "accepts" =>
              sharesInFlight' = sharesInFlight /\ shareState' = "error"
       /\ arg' = "AbortError" => shareState' = "idle" /\ shareFiles' = Null
       /\ arg' \in {"executeShare"} \cup ShareOutcomes => UNCHANGED docVars]_vars

\* a share that canShare accepted has been cancelled by the user
C19_Witness ==
    /\ arg = "AbortError"
    /\ navigator.canShare = "accepts"
    /\ shareState = "idle"
    /\ shareFiles = Null
    /\ entries # <<>>

\* ------------------------------------------------------------------------
\* Robustness
\* ------------------------------------------------------------------------
\* C21: whatever was done, an accepted import included, sorting and
\* aggregating the stored entries is defined and App is still mounted, so
\* that editing and importing remain possible.
C21_NoErrorIsFatal ==
    /\ ~sortedEntries_throws(entries)
    /\ ~summaryMetrics_throws(entries)
    /\ res = Mounted

\* C22: the summaryMetrics read in a render are the aggregation of the
\* current entries, the current baseOvertime and the current calendar month.
C22_MetricsReadAreCurrent ==
    [][arg' = "render" =>
          summaryMetrics' = Some(SummaryMetricsOf(entries', baseOvertime', now'))]_vars

\* ------------------------------------------------------------------------
\* Shape of the entries written by add and update (SpecShape)
\* ------------------------------------------------------------------------
\* the entry a successful add or update wrote
Written ==
    IF res[1] = "handleSubmit" THEN entries[1]
    ELSE entries[CHOOSE i \in DOMAIN entries : entries[i].id = res[2][1].id]

WriteSucceeded ==
    /\ res # NoResult
    /\ IF res[1] = "handleSubmit" THEN error = Null ELSE EditModal_error = Null

\* C23: an entry written by a successful add or update has deployments only
\* if its kind is OnCall and the form's has-deployments flag is set, an
\* isChildSick only if its kind is Sick, and empty startTime and endTime if its
\* kind is Vacation, Sick or OnCall.
C23_WrittenEntryFitsItsKind ==
    WriteSucceeded =>
        LET kind == KindOf(Written.location)
        IN /\ Written.deployments # None => kind = "OnCall" /\ arg.hasDeployments
           /\ Written.isChildSick # None => kind = "Sick"
           /\ kind \in TimeFreeKinds =>
                  Written.startTime = <<>> /\ Written.endTime = <<>>

\* an OnCall entry with deployments was edited into a Regular one
C23_Witness ==
    /\ WriteSucceeded
    /\ res[1] = "handleSaveChanges"
    /\ KindOf(res[2][1].location) = "OnCall"
    /\ res[2][1].deployments # None
    /\ arg.hasDeployments /\ arg.deployments # <<>>
    /\ KindOf(Written.location) = "Regular"
    /\ Written.deployments = None
    /\ Written.startTime # <<>>

\* ------------------------------------------------------------------------
\* Display of hours (SpecFormat)
\* ------------------------------------------------------------------------
\* the number of hundredths nearest to hours, the one farther from zero of
\* two that are equally near
RoundHalfAwayFromZero(hours) ==
    IF hours < 0 THEN -(((-hours) + MsPerHundredth \div 2) \div MsPerHundredth)
    ELSE (hours + MsPerHundredth \div 2) \div MsPerHundredth

\* C24: formatHours rounds to two decimal places, half away from zero, and
\* takes the sign from the rounded value: '+' when it is 0, '-' when it is
\* negative, followed by the absolute rounded value.
C24_FormatHoursRoundsHalfAwayFromZero ==
    res # NoResult =>
        LET rounded == RoundHalfAwayFromZero(arg)
            magnitude == IF rounded < 0 THEN -rounded ELSE rounded
        IN /\ res[1][1] = IF rounded < 0 THEN "-" ELSE "+"
           /\ res[1][2] = <<magnitude \div 100, ",", (magnitude % 100) \div 10,
                            magnitude % 10>>

\* ------------------------------------------------------------------------
\* Frame of update and remove (Spec)
\* ------------------------------------------------------------------------
RemoveAt(es, i) == [k \in 1..(Len(es) - 1) |-> IF k < i THEN es[k] ELSE es[k + 1]]

\* a save of the EditModal that changed the collection
UpdateStep ==
    /\ editingEntry # None /\ editingEntry' = None
    /\ confirmation' = confirmation
    /\ entries' # entries

\* the confirm button of a delete request that changed the collection
RemoveStep ==
    /\ confirmation # None /\ confirmation' = None
    /\ confirmation[1].title = TitleDeleteEntry
    /\ entries' # entries

\* C25: an update changes one stored entry, which keeps its id, and leaves
\* the size, the order and every other entry as they were; a confirmed remove
\* takes out one entry, that of the given id, and leaves the others as they
\* were and in their order.
C25_UpdateAndRemoveTouchOneEntry ==
    [][/\ UpdateStep =>
              /\ Len(entries') = Len(entries)
              /\ \A i \in DOMAIN entries : entries'[i].id = entries[i].id
              /\ Cardinality({i \in DOMAIN entries : entries'[i] # entries[i]}) = 1
       /\ RemoveStep =>
              \E i \in DOMAIN entries :
                  /\ entries[i].id = confirmation[1].id
                  /\ entries' = RemoveAt(entries, i)]_vars

\* ------------------------------------------------------------------------
\* Dates without regular hours (SpecMetrics)
\* ------------------------------------------------------------------------
RegularOn(es, d) ==
    {i \in DOMAIN es : es[i].date = d /\ KindOf(es[i].location) = "Regular"}

\* d is not excluded, has Regular entries, and none of them has a start
\* before its end
IdleDate(es, d) ==
    /\ d \in CountedDates(es)
    /\ RegularOn(es, d) # {}
    /\ \A i \in RegularOn(es, d) : ~PositiveSpan(es[i].startTime, es[i].endTime)

WithoutRegularOn(es, d) ==
    SelectSeq(es, LAMBDA e : ~(e.date = d /\ KindOf(e.location) = "Regular"))

\* C26: a non-excluded date whose Regular entries all have an empty or
\* non-positive span adds nothing to totalWorkHours, totalOvertime and
\* currentMonthOvertime: the three are those of the collection without these
\* entries, so that no 8-hour baseline is charged for the date.
C26_DateWithoutRegularHoursContributesNothing ==
    Computed =>
        \A d \in DatesOf(entries) :
            IdleDate(entries, d) =>
                HourFields(Metrics) =
                    HourFields(SummaryMetricsOf(WithoutRegularOn(entries, d),
                                                baseOvertime, now))

C26_Witness ==
    /\ Computed
    /\ \E d1, d2 \in DatesOf(entries) :
          /\ IdleDate(entries, d1)
          /\ InCurrentMonth(d1, now)
          /\ RegularHoursOn(entries, d2) > 0
          /\ d2 \in CountedDates(entries)
          /\ Metrics.currentMonthOvertime = 0
          /\ Metrics.totalWorkHours = RegularHoursOn(entries, d2)

\* ------------------------------------------------------------------------
\* Export and import (SpecRoundTrip)
\* ------------------------------------------------------------------------
\* C27: the import of a file that handleSave wrote leaves entries (with
\* deployments and isChildSick), employeeName, savedLocations and baseOvertime
\* equal to those the file was saved from, whatever was edited in between.
C27_ImportRestoresExportedDocument ==
    [][arg' = "load" => docVars' = res[2]]_vars

\* a document with deployments and a child-sick flag was saved, edited in
\* every field and restored
C27_Witness ==
    /\ arg = "load"
    /\ docVars = res[2]
    /\ res[3][1] # entries
    /\ res[3][4] # baseOvertime
    /\ \E i \in DOMAIN entries :
          entries[i].deployments # None /\ entries[i].deployments[1] # <<>>
    /\ employeeName # <<>> /\ savedLocations # <<>>

\* ------------------------------------------------------------------------
\* The pause button (SpecPause)
\* ------------------------------------------------------------------------
\* the places of sorted that hold a Regular entry with an endTime
RegularWithEnd(sorted) ==
    {i \in DOMAIN sorted :
        KindOf(sorted[i].location) = "Regular" /\ sorted[i].endTime # <<>>}

\* p is the pause that follows the entry last
PauseAfter(p, last) ==
    /\ KindOf(p.location) = "Pause"
    /\ p.date = last.date
    /\ p.startTime = last.endTime
    /\ p.endTime[1] \in 0..23 /\ p.endTime[2] \in 0..59
    /\ MinuteOfDay(p.endTime) = (MinuteOfDay(last.endTime) + 30) % (24 * 60)

\* C28: handleAddPause appends one Pause entry dated as the last Regular
\* entry with an endTime of the display order, starting at that endTime and
\* ending 30 minutes later on the clock, and leaves the existing entries as
\* they are; without such an entry the collection stays as it is.
C28_PauseFollowsLastRegularEntry ==
    res # NoResult =>
        \E sorted \in sortedEntries(res[1]) :
            LET W == RegularWithEnd(sorted)
            IN IF W = {} THEN entries = res[1]
               ELSE /\ Len(entries) = Len(res[1]) + 1
                    /\ SubSeq(entries, 1, Len(res[1])) = res[1]
                    /\ PauseAfter(entries[Len(entries)],
                                  sorted[CHOOSE i \in W : \A j \in W : j <= i])

\* the pause after an entry that ends at 23:45 ends at 00:15 of that date,
\* with another Regular entry stored after it
C28_Witness ==
    /\ res # NoResult
    /\ Len(entries) = Len(res[1]) + 1
    /\ Len(res[1]) >= 2
    /\ res[1][1].endTime = T2345
    /\ KindOf(res[1][2].location) = "Regular"
    /\ entries[Len(entries)].startTime = T2345
    /\ entries[Len(entries)].endTime = <<0, 15>>
    /\ entries[Len(entries)].date = Day1

\* ------------------------------------------------------------------------
\* The share modal (SpecShare)
\* ------------------------------------------------------------------------
\* C29: 'ready' implies that shareFiles holds the prepared files;
\* 'preparing' is entered only from 'idle' and is left only by the
\* preparation finishing, to 'ready' or to 'error', never by a close; from
\* 'ready' and 'error' the modal can be closed, which leads to 'idle'.
C29_ShareStateMachine ==
    [][/\ shareState' = "ready" => shareFiles' # Null
       /\ shareState # "preparing" /\ shareState' = "preparing" =>
              shareState = "idle" /\ arg' = "handlePrepareShare"
       /\ shareState = "preparing" /\ shareState' # "preparing" =>
              arg' = "prepared" /\ shareState' \in {"ready", "error"}
       /\ arg' = "close" =>
              shareState \in {"ready", "error"} /\ shareState' = "idle"
       /\ shareState \in {"ready", "error"} => ENABLED ShareClose]_vars

\* ------------------------------------------------------------------------
\* The service worker (src/sw.js)
\* ------------------------------------------------------------------------
\* a request is its method and its URL; identical requests are equal records
APP_SHELL_URLS ==
    {"/", "index.html", "index.css", "index.tsx", "manifest.json", "icon.svg"}

OldCacheName == "wochenzettel-cache-v2"
CdnURLs == {"https://cdn/react.js", "https://cdn/jspdf.js"}
RequestURLs == {"/", "index.tsx"} \cup CdnURLs
Requests == [method : {"GET", "POST"}, url : RequestURLs]
NoRequest == [method |-> "", url |-> ""]

\* identical requests the network serves at the same time
MaxInFlight == 2

SwEvent(event, request, answer) ==
    [event |-> event, request |-> request, answer |-> answer]

\* cache.match(request) of the cache caches.open(CACHE_NAME) yields
cache_match(store, request) ==
    /\ CACHE_NAME \in DOMAIN store
    /\ request.url \in store[CACHE_NAME]

\* caches.open(name) creates the cache when the origin has none of that name
caches_open(store, name) ==
    [n \in DOMAIN store \cup {name} |->
        IF n \in DOMAIN store THEN store[n] ELSE {}]

\* cache.put(request, response): a request is stored once
cache_put(store, name, urls) ==
    [n \in DOMAIN store |-> IF n = name THEN store[n] \cup urls ELSE store[n]]

\* the install listener: cache.addAll stores all of the app shell or,
\* when one of its requests fails or is not ok, rejects and stores nothing
sw_install(addAllSucceeds) ==
    /\ worker = "installing"
    /\ caches' = IF addAllSucceeds
                 THEN cache_put(caches_open(caches, CACHE_NAME), CACHE_NAME,
                                APP_SHELL_URLS)
                 ELSE caches_open(caches, CACHE_NAME)
    /\ worker' = IF addAllSucceeds THEN "installed" ELSE "redundant"
    /\ UNCHANGED fetching

\* the activate listener: caches.delete for every name but CACHE_NAME
sw_activate ==
    /\ worker = "installed"
    /\ caches' = [n \in {name \in DOMAIN caches : ~(name # CACHE_NAME)} |->
                    caches[n]]
    /\ worker' = "activated"
    /\ UNCHANGED fetching

\* the network's answers to fetch(event.request), and whether a response is
\* stored: `if (networkResponse.ok)`
NetworkOutcomes == {"ok", "notOk", "failed"}

networkResponse_ok_orNot(outcome) == outcome # "failed"

networkResponse_ok(outcome) == outcome = "ok"

FreeSlots(request) ==
    {n \in 1..MaxInFlight : <<request, n>> \notin fetching}

\* the fetch listener up to `await fetch(event.request)`: no respondWith for
\* a request that is not a GET; the cached response when there is one
sw_fetch(request) ==
    /\ worker = "activated"
    /\ IF request.method # "GET"
       THEN /\ arg' = SwEvent("fetch", request, "notHandled")
            /\ UNCHANGED <<caches, fetching>>
       ELSE IF cache_match(caches_open(caches, CACHE_NAME), request)
       THEN /\ arg' = SwEvent("fetch", request, "cachedResponse")
            /\ caches' = caches_open(caches, CACHE_NAME)
            /\ UNCHANGED fetching
       ELSE /\ FreeSlots(request) # {}
            /\ arg' = SwEvent("fetch", request, "awaitsNetwork")
            /\ caches' = caches_open(caches, CACHE_NAME)
            /\ fetching' = fetching \cup
                   {<<request, CHOOSE n \in FreeSlots(request) :
                                  \A m \in FreeSlots(request) : n <= m>>}
    /\ UNCHANGED worker

\* the fetch listener after `await fetch(event.request)`: the response is
\* put into the cache when it is ok, and returned; a failed fetch and a
\* cache.put that throws reject the answer
sw_fetch_settled(pending, outcome, putThrows) ==
    /\ pending \in fetching
    /\ fetching' = fetching \ {pending}
    /\ UNCHANGED worker
    /\ IF outcome = "failed"
       THEN /\ arg' = SwEvent("settled", pending[1], "error")
            /\ UNCHANGED caches
       ELSE IF networkResponse_ok(outcome)
       THEN IF putThrows
            THEN /\ arg' = SwEvent("settled", pending[1], "error")
                 /\ UNCHANGED caches
            ELSE /\ arg' = SwEvent("settled", pending[1], "networkResponse")
                 /\ caches' = cache_put(caches_open(caches, CACHE_NAME),
                                        CACHE_NAME, {pending[1].url})
       ELSE /\ arg' = SwEvent("settled", pending[1], "networkResponse")
            /\ UNCHANGED caches

\* ------------------------------------------------------------------------
\* SpecSW: a worker of this version is installed over the caches an
\* earlier version left, is activated, and handles fetch events
\* ------------------------------------------------------------------------
\* res is the set of requests that were answered with an ok network response
SwCachesInputs ==
    { [name \in names |-> IF name = CACHE_NAME THEN {} ELSE {"/", "index.html"}] :
        names \in SUBSET {OldCacheName, CACHE_NAME} }

SwSpecInit ==
    /\ entries = <<>>
    /\ employeeName = ""
    /\ savedLocations = <<>>
    /\ baseOvertime = 0
    /\ error = Null
    /\ editingEntry = None
    /\ EditModal_error = Null
    /\ clock = 0
    /\ now = Day1
    /\ summaryMetrics = None
    /\ confirmation = None
    /\ readers = {}
    /\ persistDeps = docVars
    /\ saveIndicatorText = SaveIndicatorIdle
    /\ ShareInit
    /\ caches \in SwCachesInputs
    /\ worker = "installing"
    /\ fetching = {}
    /\ arg = SwEvent("register", NoRequest, "")
    /\ res = {}

swFrame == <<docVars, appVars, memoVars, confirmVars, persistVars, shareVars>>

SwInstall ==
    \E addAllSucceeds \in BOOLEAN :
        /\ sw_install(addAllSucceeds)
        /\ arg' = SwEvent("install", NoRequest, "")
        /\ UNCHANGED <<res, swFrame>>

SwActivate ==
    /\ sw_activate
    /\ arg' = SwEvent("activate", NoRequest, "")
    /\ UNCHANGED <<res, swFrame>>

SwFetch ==
    \E request \in Requests :
        /\ sw_fetch(request)
        /\ UNCHANGED <<res, swFrame>>

SwFetchSettled ==
    \E pending \in fetching, outcome \in NetworkOutcomes, putThrows \in BOOLEAN :
        /\ sw_fetch_settled(pending, outcome, putThrows)
        /\ res' = IF outcome = "ok" /\ arg'.answer = "networkResponse"
                  THEN res \cup {pending[1]} ELSE res
        /\ UNCHANGED swFrame

SwNext == SwInstall \/ SwActivate \/ SwFetch \/ SwFetchSettled

SpecSW == SwSpecInit /\ [][SwNext]_vars

\* the URLs stored in any cache of the origin
StoredURLs(store) == UNION {store[n] : n \in DOMAIN store}

\* C30: a GET is answered from the cache whenever it is cached, without the
\* network, and otherwise from the network; a response is stored only when
\* it is the ok answer to a GET (or part of the app shell at installation),
\* so a request answered with an ok network response is cached and every
\* later identical GET is answered from the cache; activation leaves the
\* cache CACHE_NAME as it was and no other.
C30_CacheFirstAndOnlyOkStored ==
    [][/\ arg'.event = "fetch" /\ arg'.request.method = "GET" =>
              IF cache_match(caches, arg'.request) \/ arg'.request \in res
              THEN arg'.answer = "cachedResponse" /\ fetching' = fetching
              ELSE /\ arg'.answer = "awaitsNetwork"
                   /\ \E n \in 1..MaxInFlight :
                          fetching' = fetching \cup {<<arg'.request, n>>}
                   /\ fetching' # fetching
       /\ arg'.event = "fetch" /\ arg'.request.method # "GET" =>
              arg'.answer = "notHandled" /\ fetching' = fetching
       /\ \A url \in StoredURLs(caches') \ StoredURLs(caches) :
              \/ arg'.event = "install" /\ url \in APP_SHELL_URLS
              \/ /\ arg'.event = "settled"
                 /\ arg'.request = [method |-> "GET", url |-> url]
                 /\ arg'.request \in res'
       /\ \A request \in res' : cache_match(caches', request)
       /\ arg'.event = "activate" =>
              /\ DOMAIN caches' = {CACHE_NAME}
              /\ caches'[CACHE_NAME] = caches[CACHE_NAME]]_vars

\* a GET for a CDN resource was answered from the cache, after the network
\* once answered it with an ok response, and only the current cache is left
C30_Witness ==
    /\ arg.event = "fetch"
    /\ arg.answer = "cachedResponse"
    /\ arg.request \in res
    /\ arg.request.url \in CdnURLs
    /\ DOMAIN caches = {CACHE_NAME}
    /\ APP_SHELL_URLS \subseteq caches[CACHE_NAME]
====
